---- MODULE Spec2Model ----
(***************************************************************************)
(* Event-to-run reconciliation of cloudigrade.                             *)
(*                                                                         *)
(* One instance is modelled.  Its stored InstanceEvent rows are kept as a  *)
(* sequence ordered by occurred_at, ties broken by insertion order; its    *)
(* stored Run rows are kept as a sequence in database id order.            *)
(* process_instance_event is translated from api/tasks.py (the dispatch   *)
(* in analyzer/tasks.py is the same); normalize_runs and recalculate_runs  *)
(* live in api/util.py, which is not part of the source tree at hand, and  *)
(* are modelled from section 4.D of the specification.                     *)
(***************************************************************************)
EXTENDS Integers, Sequences, FiniteSets, TLC

(* ------------------------------ bounds -------------------------------- *)

\* occurred_at values are drawn from 1..MaxTime
MaxTime == 4

\* at most MaxEvents InstanceEvent rows are stored for the instance
MaxEvents == 4

\* the most MachineImageInspectionStart rows recorded for the image
MaxStarts == 3

\* the most messages or tasks waiting in any one queue
MaxMessages == 1

\* the most messages waiting on the CloudTrail SQS queue
MaxQueue == 2

\* at most MaxRows InstanceEvent rows and MaxRows Run rows per instance
MaxRows == 1

\* a CloudTrail log carries at most MaxTagEvents tag events
MaxTagEvents == 3

\* the occurred_at of a tag event is drawn from 1..MaxTagTime
MaxTagTime == 2

\* the messages the ready_volumes queue may hold
MaxVolumes == 11

\* the greatest max_count a direct read of the queue is made with
MaxCount == 2

\* the greatest number of messages run_inspection_cluster is called with
MaxBatch == 2

(* ----------------------------- constants ------------------------------ *)

\* a null column (Run.end_time, Run.vcpu, Run.memory)
Null == -1

\* a null instance_type / image reference
NoType == "none"

POWER_ON == "power_on"

POWER_OFF == "power_off"

ATTRIBUTE_CHANGE == "attribute_change"

\* InstanceEvent.TYPE
EventTypes == {POWER_ON, POWER_OFF, ATTRIBUTE_CHANGE}

\* the image the instance is bound to
InstanceImage == "ami-a"

\* instance types that events may carry
InstanceTypes == {"t2.micro", "t2.large"}

\* the instance definition lookup: instance_type -> vcpu
DefinitionVcpu(t) ==
    CASE t = "t2.micro" -> 1
      [] t = "t2.large" -> 4
      [] OTHER -> Null

\* the instance definition lookup: instance_type -> memory
DefinitionMemory(t) ==
    CASE t = "t2.micro" -> 1
      [] t = "t2.large" -> 16
      [] OTHER -> Null

(* ------------------------------ state --------------------------------- *)

VARIABLES
    events,   \* stored InstanceEvent rows of the instance
    runs,     \* stored Run rows of the instance
    path,     \* which branch the last process_instance_event call took
    last,     \* the event the last process_instance_event call was given
    workers,  \* the position of each concurrent process_instance_event task
    base,     \* the stored events and runs when the concurrent tasks began
    machine_image,  \* the MachineImage row of the instance's image
    inspection_starts,  \* the MachineImageInspectionStart rows of the image
    copy_tasks,  \* copy_ami_snapshot tasks waiting in the task queue
    copies,   \* copy_ami_snapshot tasks enqueued by start_image_inspection
    volumes,  \* ready-volume messages waiting for the attach step
    results,  \* inspection results waiting in the results queue
    step,     \* the last inspection operation that ran
    received, \* the verdict the last persisted inspection result carried
    sqs_queue,  \* the messages waiting on the CloudTrail SQS queue
    successes,  \* the ids of the messages the last analyze_log pass succeeded on
    failures,   \* the ids of the messages the last analyze_log pass failed on
    aws_images,     \* the stored machine image rows, by AMI id
    aws_instances,  \* the stored instance rows, by EC2 instance id
    aws_events,     \* the stored instance event rows
    inspected_amis,  \* the AMI ids start_image_inspection was called for
    cloud_accounts,     \* the account ids a CloudAccount row exists for
    account_instances,  \* the Instance rows: their account and their image
    event_rows,   \* the number of InstanceEvent rows of each instance
    run_rows,     \* the number of Run rows of each instance
    image_rows,   \* the AMI ids a MachineImage row exists for
    last_delete,  \* the last CloudAccount.delete call and how it ended
    named_image,  \* the name and owner of a stored AwsMachineImage
    classified,   \* is_marketplace and is_cloud_access as last read from it
    image_json,       \* inspection_json of the stored image
    rhel_challenged,  \* rhel_challenged of the stored image
    rhel_read,        \* rhel and rhel_detected as last read from it
    is_enabled,       \* is_enabled of each CloudAccount
    sources_status,   \* the availability status sources-api holds for each
    last_notify,      \* the last enable or disable call and how it ended
    ingest_pc,         \* the position of the ingest task that is running
    transaction_open,  \* a database transaction of the task is open
    cloud_call,        \* the AWS API call the task is waiting on
    seen_amis,         \* the AMI ids in the data the task has gathered
    stored_amis,       \* the AMI ids an AwsMachineImage row exists for
    inspect_rows,  \* committed status and age of the image rows
    invocations,   \* position and query result of each inspect_pending_images
    delayed,       \* the images each invocation enqueued copy_ami_snapshot for
    ready_volumes,  \* how often each message is on the ready_volumes queue
    last_read,      \* the last read of the queue: by whom, max_count, result
    cluster_images,  \* status and marketplace flag of the images, by AMI id
    last_cluster     \* the last run_inspection_cluster call and how it went

\* the variables of the concurrent process_instance_event tasks
workerVars == <<workers, base>>

\* the variables of the run reconciliation
runVars == <<events, runs, path, last, workerVars>>

\* the variables of the image inspection
imageVars ==
    <<machine_image, inspection_starts, copy_tasks, copies, volumes, results,
      step, received>>

\* the variables of the CloudTrail log analysis
analyzerVars ==
    <<sqs_queue, successes, failures, aws_images, aws_instances, aws_events,
      inspected_amis>>

\* the variables of the account deletion
accountVars ==
    <<cloud_accounts, account_instances, event_rows, run_rows, image_rows,
      last_delete>>

\* the variables the RHEL classification adds to the stored image
rhelVars == <<image_json, rhel_challenged, rhel_read>>

\* the variables of the image classification
classifyVars == <<named_image, classified, rhelVars>>

\* the variables of the availability notifier
notifyVars == <<is_enabled, sources_status, last_notify>>

\* the variables of the steps of the ingest tasks
ingestVars ==
    <<ingest_pc, transaction_open, cloud_call, seen_amis, stored_amis>>

\* the variables of concurrent inspect_pending_images invocations
pendingVars == <<inspect_rows, invocations, delayed>>

\* the variables of the ready_volumes queue
queueVars == <<ready_volumes, last_read, cluster_images, last_cluster>>

\* the variables of run_inspection_cluster
clusterVars == <<cluster_images, last_cluster>>

\* the variables of the surrounding services
serviceVars == <<notifyVars, ingestVars, pendingVars, queueVars>>

\* the frame of the actions of the surrounding services
coreVars == <<runVars, imageVars, analyzerVars, accountVars, classifyVars>>

\* what the notifier leaves alone
notifyFrame == <<coreVars, ingestVars, pendingVars, queueVars>>

\* what the steps of the ingest tasks leave alone
ingestFrame == <<coreVars, notifyVars, pendingVars, queueVars>>

\* what the inspect_pending_images invocations leave alone
pendingFrame == <<coreVars, notifyVars, ingestVars, queueVars>>

\* what the tasks on the ready_volumes queue leave alone
queueFrame == <<coreVars, notifyVars, ingestVars, pendingVars>>

\* the variables outside the run reconciliation and the image inspection
otherVars == <<analyzerVars, accountVars, classifyVars, serviceVars>>

vars == <<runVars, imageVars, otherVars>>

\* an InstanceEvent row
Event(type, at, itype, image) ==
    [event_type |-> type, occurred_at |-> at, instance_type |-> itype,
     image |-> image]

\* a Run row
Run(start, end, itype, image) ==
    [start_time |-> start, end_time |-> end, instance_type |-> itype,
     vcpu |-> DefinitionVcpu(itype), memory |-> DefinitionMemory(itype),
     image |-> image]

\* no event: process_instance_event has not run yet
NoEvent == Event(NoType, Null, NoType, NoType)

\* the celery workers that may run process_instance_event at the same time
Workers == {"w1", "w2"}

\* a worker that is running no task
Idle == [pc |-> "idle", event |-> NoEvent, branch |-> "none"]

(* ----------------------- sequence helpers ----------------------------- *)

\* the elements of a sequence, as a set
Range(s) == {s[i] : i \in 1..Len(s)}

\* queryset.order_by('occurred_at') after a save: e goes behind every stored
\* event that occurred at the same time or earlier
InsertEvent(evs, e) ==
    LET k == Cardinality({i \in 1..Len(evs) :
                            evs[i].occurred_at <= e.occurred_at})
    IN  SubSeq(evs, 1, k) \o <<e>> \o SubSeq(evs, k + 1, Len(evs))

Min(a, b) == IF a < b THEN a ELSE b

(* --------------------------- normalize_runs --------------------------- *)

\* the next event after position i that carries an instance_type
NextType(seq, i) ==
    LET typed == {j \in (i + 1)..Len(seq) : seq[j].instance_type # NoType}
    IN  IF typed = {} THEN NoType
        ELSE seq[CHOOSE j \in typed : \A k \in typed : j <= k].instance_type

\* state of the walk before the first event
WalkInit ==
    [open_start |-> Null, open_type |-> NoType, open_image |-> NoType,
     last_type |-> NoType, out |-> <<>>, failed |-> FALSE]

\* a walk that lets the instance type change while the instance runs
TypeChangeAllowedWhileRunning(st, e) == FALSE

\* event e carries another instance type than the run that is open in the
\* walk: the instance seems to change type while running
TypeChangedWhileRunning(st, e) ==
    /\ st.open_start # Null
    /\ e.instance_type # NoType
    /\ st.open_type # NoType
    /\ e.instance_type # st.open_type

\* the left-to-right walk over the events seq[i..]: a power_on opens a run
\* unless one is open, a power_off closes the open run, an attribute_change
\* opens and closes nothing; an event inside the open run that carries
\* another instance type or another image than the run makes the walk fail
\* (NormalizeRunException)
RECURSIVE Walk(_, _, _)
Walk(seq, i, st) ==
    IF i > Len(seq)
    THEN IF st.open_start # Null
         THEN [st EXCEPT !.out = Append(st.out,
                  Run(st.open_start, Null, st.open_type, st.open_image))]
         ELSE st
    ELSE
      LET e  == seq[i]
          lt == IF e.instance_type # NoType THEN e.instance_type
                ELSE st.last_type
          changed == st.open_start # Null /\ e.image # NoType
                     /\ e.image # st.open_image
          retyped == TypeChangedWhileRunning(st, e)
      IN
      IF changed \/ retyped THEN [st EXCEPT !.failed = TRUE]
      ELSE IF e.event_type = POWER_ON
      THEN IF st.open_start = Null
           THEN Walk(seq, i + 1,
                  [st EXCEPT !.open_start = e.occurred_at,
                             !.open_type = IF lt # NoType THEN lt
                                           ELSE NextType(seq, i),
                             !.open_image = e.image,
                             !.last_type = lt])
           ELSE Walk(seq, i + 1, [st EXCEPT !.last_type = lt])
      ELSE IF e.event_type = POWER_OFF
      THEN IF st.open_start # Null
           THEN Walk(seq, i + 1,
                  [st EXCEPT !.out = Append(st.out,
                               Run(st.open_start, e.occurred_at,
                                   st.open_type, st.open_image)),
                             !.open_start = Null,
                             !.last_type = lt])
           ELSE Walk(seq, i + 1, [st EXCEPT !.last_type = lt])
      ELSE \* attribute_change
           Walk(seq, i + 1, [st EXCEPT !.last_type = lt])

\* normalize_runs(events): the runs the ordered events describe, or failure
normalize_runs(seq) ==
    LET st == Walk(seq, 1, WalkInit)
    IN  [failed |-> st.failed, runs |-> st.out]

(* -------------------------- recalculate_runs -------------------------- *)

\* the Q filter without during_run: a closed run around t is not found
AffectedWithoutDuringRun(r, t) ==
    \/ r.start_time > t
    \/ r.start_time <= t /\ r.end_time = Null

\* the Q filter without during_run_no_end: the open run is not found
AffectedWithoutOpenRun(r, t) ==
    \/ r.start_time > t
    \/ r.start_time <= t /\ r.end_time # Null /\ r.end_time > t

\* the Q filter after_run | during_run | during_run_no_end
Affected(r, t) ==
    \/ r.start_time > t
    \/ r.start_time <= t /\ r.end_time # Null /\ r.end_time > t
    \/ r.start_time <= t /\ r.end_time = Null

\* min(batch.occurred_at, earliest affected run.start_time)
Watermark(rs, t) ==
    LET starts == {rs[i].start_time : i \in {j \in 1..Len(rs) :
                                               Affected(rs[j], t)}}
    IN  IF starts = {} THEN t
        ELSE Min(t, CHOOSE s \in starts : \A u \in starts : s <= u)

\* the stored events at or after the watermark, preceded by the one event
\* immediately before it (the anchor), if any
LoadEvents(evs, w) ==
    LET before == {i \in 1..Len(evs) : evs[i].occurred_at < w}
        first  == Cardinality(before) + 1
    IN  IF before = {} THEN evs
        ELSE SubSeq(evs, first - 1, Len(evs))

\* recalculate_runs(event): delete the runs from the watermark on and emit
\* the runs of the loaded events for the times from the watermark on (no
\* stored run before the watermark changes); a failure leaves the runs as
\* they were
recalculate_runs(evs, rs, e) ==
    LET w    == Watermark(rs, e.occurred_at)
        norm == normalize_runs(LoadEvents(evs, w))
        kept == SelectSeq(rs, LAMBDA r : r.start_time < w)
        emitted == SelectSeq(norm.runs, LAMBDA r : r.start_time >= w)
    IN  IF norm.failed THEN rs ELSE kept \o emitted

(* ------------------------ process_instance_event ---------------------- *)

\* a dispatch that recalculates for every event
BranchAlwaysRecalculate(rs, e) == "recalculate"

\* a dispatch whose elif lost the power_on branch
BranchWithoutNewRun(rs, e) ==
    IF \E i \in 1..Len(rs) : Affected(rs[i], e.occurred_at)
    THEN "recalculate"
    ELSE "ignored"

\* which branch process_instance_event takes for event e
Branch(rs, e) ==
    IF \E i \in 1..Len(rs) : Affected(rs[i], e.occurred_at)
    THEN "recalculate"
    ELSE IF e.event_type = POWER_ON THEN "new_run" ELSE "ignored"

\* process_instance_event that never calls recalculate_runs
process_instance_event_new_run_only(evs, rs, e) ==
    CASE Branch(rs, e) = "new_run" -> rs \o normalize_runs(<<e>>).runs
      [] OTHER -> rs

\* process_instance_event that appends a run for every power_on, whatever
\* runs are stored
process_instance_event_always_new_run(evs, rs, e) ==
    IF e.event_type = POWER_ON THEN rs \o normalize_runs(<<e>>).runs ELSE rs

\* the runs stored after process_instance_event(e); evs already holds e
process_instance_event(evs, rs, e) ==
    CASE Branch(rs, e) = "recalculate" -> recalculate_runs(evs, rs, e)
      [] Branch(rs, e) = "new_run" -> rs \o normalize_runs(<<e>>).runs
      [] OTHER -> rs

(* ----------------------------- machine image ------------------------- *)

\* MachineImage.STATUS_CHOICES that the inspection moves through
PENDING == "pending"
PREPARING == "preparing"
INSPECTING == "inspecting"
INSPECTED == "inspected"
ERROR == "error"

Statuses == {PENDING, PREPARING, INSPECTING, INSPECTED, ERROR}

\* settings.MAX_ALLOWED_INSPECTION_ATTEMPTS
MAX_ALLOWED_INSPECTION_ATTEMPTS == 1

\* the keys of the inspection result of one image
JsonKeys ==
    <<"rhel_enabled_repos_found", "rhel_product_certs_found",
      "rhel_release_files_found", "rhel_signed_packages_found">>

\* the inspection results the inspection may send for the image
Verdicts ==
    {[k \in Range(JsonKeys) |-> k = "rhel_enabled_repos_found" /\ b] :
        b \in BOOLEAN}
    \cup {[k \in Range(JsonKeys) |-> TRUE]}

\* json.dumps of an inspection result: the text of its members in order,
\* each a key and the literal of its value
json_dumps(v) ==
    [i \in 1..Len(JsonKeys) |->
        <<JsonKeys[i], IF v[JsonKeys[i]] THEN "true" ELSE "false">>]

\* json.loads of such a text
json_loads(text) ==
    [k \in {text[i][1] : i \in 1..Len(text)} |->
        LET i == CHOOSE j \in 1..Len(text) : text[j][1] = k
        IN  text[i][2] = "true"]

\* inspection_json of an image that has no inspection result
NoJson == <<>>

\* a MachineImage row as it is created: status pending, no inspection_json
NewImage(marketplace, cloud_access, by_tag) ==
    [status |-> PENDING, inspection_json |-> NoJson,
     is_marketplace |-> marketplace, is_cloud_access |-> cloud_access,
     rhel_detected_by_tag |-> by_tag]

(* ------------------------------ actions ------------------------------- *)

\* the events the log analysis may deliver for the instance
IncomingEvents ==
    {Event(POWER_ON, t, "t2.micro", InstanceImage) : t \in 1..MaxTime}
    \cup {Event(POWER_OFF, t, NoType, InstanceImage) : t \in 1..MaxTime}
    \cup {Event(ATTRIBUTE_CHANGE, t, "t2.large", InstanceImage) :
        t \in 1..MaxTime}

\* an instance that has no events and no runs yet
InitRuns ==
    /\ events = <<>>
    /\ runs = <<>>
    /\ path = "none"
    /\ last = NoEvent
    /\ workers = [w \in Workers |-> Idle]
    /\ base = [events |-> <<>>, runs |-> <<>>]

\* a newly saved image whose inspection has not been started
InitImage(marketplace, cloud_access, by_tag) ==
    /\ machine_image = NewImage(marketplace, cloud_access, by_tag)
    /\ inspection_starts = 0
    /\ copy_tasks = 0
    /\ copies = 0
    /\ volumes = 0
    /\ results = <<>>
    /\ step = "none"
    /\ received = NoJson

(* ------------------------- CloudTrail log analysis -------------------- *)

UNAVAILABLE == "unavailable"

\* a null ec2_ami_id
NoAmi == "none"

\* no row is stored under the id
NoRow == [status |-> "none", openshift_detected |-> FALSE]

\* the AMI ids events may name; describe_images finds no "ami-x"
AmiIds == {"ami-a", "ami-b", "ami-x"}

\* the AMIs describe_images returns a description for
DescribableAmis == {"ami-a", "ami-b"}

\* the EC2 instance ids events may name
InstanceIds == {"i-1", "i-2"}

\* describe_instances: the ImageId of the described instance
DescribedImageId(i) == IF i = "i-1" THEN "ami-a" ELSE "ami-x"

\* the AWS account ids events may name
AwsAccountIds == {"acct-1", "acct-2"}

\* the AWS account ids an AwsCloudAccount row exists for
AwsCloudAccounts == {"acct-1"}

\* a CloudTrailInstanceEvent
CloudTrailInstanceEvent(account, instance, ami, itype) ==
    [aws_account_id |-> account, ec2_instance_id |-> instance,
     ec2_ami_id |-> ami, instance_type |-> itype]

\* a CloudTrailImageTagEvent for the OpenShift tag
CloudTrailImageTagEvent(account, ami, at, exists) ==
    [aws_account_id |-> account, ec2_ami_id |-> ami, occurred_at |-> at,
     exists |-> exists]

\* an SQS message naming one CloudTrail log object; valid_json tells whether
\* the content of the object parses as JSON
Message(id, valid, ies, tes) ==
    [message_id |-> id, valid_json |-> valid, instance_events |-> ies,
     ami_tag_events |-> tes]

\* an empty queue and an empty database
InitAnalyzer ==
    /\ sqs_queue = <<>>
    /\ successes = <<>>
    /\ failures = <<>>
    /\ aws_images = [a \in AmiIds |-> NoRow]
    /\ aws_instances = [i \in InstanceIds |-> "absent"]
    /\ aws_events = {}
    /\ inspected_amis = {}

\* the is_marketplace / is_cloud_access pair before any read
NotClassified ==
    [read |-> FALSE, is_marketplace |-> FALSE, is_cloud_access |-> FALSE]

\* no Instance row is stored under the id
NoInstance == [cloud_account |-> "none", machine_image |-> NoAmi]

\* no CloudAccount.delete call was made yet
NoDelete ==
    [account |-> "none", error |-> "none", raised |-> "none",
     rows |-> 0, images |-> {}]

\* no image is named
NoNamedImage == [name |-> <<>>, owner |-> "none"]

\* no account is enrolled, no row is stored
InitAccounts ==
    /\ cloud_accounts = {}
    /\ account_instances = [i \in InstanceIds |-> NoInstance]
    /\ event_rows = [i \in InstanceIds |-> 0]
    /\ run_rows = [i \in InstanceIds |-> 0]
    /\ image_rows = {}
    /\ last_delete = NoDelete

\* no image was saved or read
InitClassify ==
    /\ named_image = NoNamedImage
    /\ classified = NotClassified
    /\ image_json = NoJson
    /\ rhel_challenged = FALSE
    /\ rhel_read = [rhel |-> FALSE, rhel_detected |-> FALSE]

\* the responses sources-api may give to the PATCH of an availability
\* status; an unreachable service gives none
Response(reached, status_code) ==
    [reached |-> reached, status_code |-> status_code]

\* no enable or disable call was made
NoNotify ==
    [account |-> "none", enable |-> FALSE, response |-> Response(FALSE, 0),
     outcome |-> "none", warned |-> FALSE, failed |-> FALSE]

\* every account is enabled and sources-api holds no status
InitNotify ==
    /\ is_enabled = [a \in AwsAccountIds |-> TRUE]
    /\ sources_status = [a \in AwsAccountIds |-> "none"]
    /\ last_notify = NoNotify

\* no ingest task is running and no image is stored
InitIngest ==
    /\ ingest_pc = "idle"
    /\ transaction_open = FALSE
    /\ cloud_call = "none"
    /\ seen_amis = {}
    /\ stored_amis = {}

\* the invocations of inspect_pending_images that may overlap
Invocations == {1, 2}

\* no image row is stored and no invocation runs
InitPending ==
    /\ inspect_rows =
          [a \in DescribableAmis |-> [status |-> "none", recent |-> FALSE]]
    /\ invocations = [k \in Invocations |-> [pc |-> "idle", images |-> {}]]
    /\ delayed = [k \in Invocations |-> {}]

\* nothing was read from the queue
NoRead == [max_count |-> 0, returned |-> 0, outcome |-> "none"]

\* the queue is empty
InitQueue ==
    /\ ready_volumes = [m \in 1..MaxVolumes |-> 0]
    /\ last_read = NoRead

\* run_inspection_cluster was not called
NoCluster == [messages |-> <<>>, attached |-> <<>>, raised |-> "none"]

\* the images whose volumes are made ready are stored and preparing
InitCluster ==
    /\ cluster_images =
          [a \in AmiIds |->
              [status |-> PREPARING, aws_marketplace_image |-> FALSE]]
    /\ last_cluster = NoCluster

InitService ==
    InitNotify /\ InitIngest /\ InitPending /\ InitQueue /\ InitCluster

InitOther == InitAnalyzer /\ InitAccounts /\ InitClassify /\ InitService

Init == InitRuns /\ InitImage(FALSE, FALSE, FALSE) /\ InitOther

\* a new event is saved and process_instance_event runs for it
IngestEvent(e) ==
    /\ Len(events) < MaxEvents
    /\ events' = InsertEvent(events, e)
    /\ runs' = process_instance_event(events', runs, e)
    /\ path' = Branch(runs, e)
    /\ last' = e
    /\ UNCHANGED <<workerVars, imageVars, otherVars>>

\* process_instance_event runs again for an event that is already stored
ReprocessEvent(e) ==
    /\ events' = events
    /\ runs' = process_instance_event(events, runs, e)
    /\ path' = Branch(runs, e)
    /\ last' = e
    /\ UNCHANGED <<workerVars, imageVars, otherVars>>

Ingest == \E e \in IncomingEvents : IngestEvent(e)

Reprocess == \E e \in Range(events) : ReprocessEvent(e)

Next == Ingest \/ Reprocess

\* a message with an event not stored yet is processed: save_instance_events
\* saves the event and process_instance_event runs for it
DeliverMessage ==
    \E e \in IncomingEvents : e \notin Range(events) /\ IngestEvent(e)

\* a message that was processed before is delivered and processed again:
\* save_instance_events builds a new row for each of its events and saves
\* it without looking for a stored one
RedeliverMessage == \E e \in Range(events) : IngestEvent(e)

NextRedelivery == DeliverMessage \/ RedeliverMessage

\* the queue delivers every message at least once
SpecRedelivery == Init /\ [][NextRedelivery]_vars

Spec == Init /\ [][Next]_vars

\* the power events among the incoming events
PowerEvents == {e \in IncomingEvents : e.event_type # ATTRIBUTE_CHANGE}

\* a power event arrives whose occurred_at differs from that of every
\* stored event of the instance
IngestPower ==
    \E e \in PowerEvents :
        /\ \A i \in 1..Len(events) : events[i].occurred_at # e.occurred_at
        /\ IngestEvent(e)

NextPower == IngestPower \/ Reprocess

\* histories of power events: arrivals and repeated processing
SpecPower == Init /\ [][NextPower]_vars

NextArrivals == IngestPower

\* histories of power events: every step saves one new event and processes it
SpecArrivals == Init /\ [][NextArrivals]_vars

(* ------------------------- pre-account cutoff ------------------------- *)

\* account.created_at, on the scale of occurred_at
AccountCreatedAt == 1

\* the events CloudTrail may report for the instance: the incoming events
\* and the delayed ones from before the account was created
CloudTrailEvents ==
    IncomingEvents
    \cup {Event(ty, AccountCreatedAt - 1, NoType, InstanceImage) :
            ty \in {POWER_ON, POWER_OFF}}

\* the list built without the "if": every event is kept
build_events_info_without_cutoff(evs) == evs

\* _build_events_info_for_saving(account, instance, events): the events that
\* did not occur before the account was created, in the order given
_build_events_info_for_saving(evs) ==
    SelectSeq(evs, LAMBDA e : e.occurred_at >= AccountCreatedAt)

\* one CloudTrail event of the instance is analysed: it is saved and
\* processed if _build_events_info_for_saving keeps it, dropped otherwise
SaveCloudTrailEvent(e) ==
    LET info == _build_events_info_for_saving(<<e>>)
    IN  IF info = <<>>
        THEN /\ UNCHANGED <<events, runs, workerVars, imageVars, otherVars>>
             /\ path' = "discarded"
             /\ last' = e
        ELSE IngestEvent(info[1])

SaveCloudTrailActivity == \E e \in CloudTrailEvents : SaveCloudTrailEvent(e)

NextCutoff == SaveCloudTrailActivity

\* histories of analysed CloudTrail events, delayed ones included
SpecCutoff == Init /\ [][NextCutoff]_vars

(* --------------------------- events of images ------------------------ *)

\* the images a power_on of the instance may name
Images == {"ami-a", "ami-b"}

\* power events that name their image: a power_on names one, a power_off
\* names none
ImageEvents ==
    {Event(POWER_ON, t, "t2.micro", im) : t \in 1..MaxTime, im \in Images}
    \cup {Event(POWER_OFF, t, NoType, NoType) : t \in 1..MaxTime}

\* a power event naming its image arrives whose occurred_at differs from
\* that of every stored event of the instance
IngestImageEvent ==
    \E e \in ImageEvents :
        /\ \A i \in 1..Len(events) : events[i].occurred_at # e.occurred_at
        /\ IngestEvent(e)

NextImages == IngestImageEvent \/ Reprocess

\* histories of power events that name their images
SpecImages == Init /\ [][NextImages]_vars

(* ---------------------- events without instance type ----------------- *)

\* power events of which some carry no instance type: a power_on carries a
\* type or none, a power_off carries none
UntypedEvents ==
    {Event(POWER_ON, t, ty, InstanceImage) :
        t \in 1..MaxTime, ty \in InstanceTypes \cup {NoType}}
    \cup {Event(POWER_OFF, t, NoType, InstanceImage) : t \in 1..MaxTime}

\* such an event arrives whose occurred_at differs from that of every
\* stored event of the instance
IngestUntypedEvent ==
    \E e \in UntypedEvents :
        /\ \A i \in 1..Len(events) : events[i].occurred_at # e.occurred_at
        /\ IngestEvent(e)

NextTypes == IngestUntypedEvent \/ Reprocess

\* histories of power events with and without instance types
SpecTypes == Init /\ [][NextTypes]_vars

(* ------------------------- concurrent workers ------------------------- *)

\* two power events of the instance, at distinct times not stored yet, are
\* saved during log analysis and a process_instance_event task is queued
\* for each; the tasks are picked up by different workers
StartTasks(e1, e2) ==
    /\ \A w \in Workers : workers[w].pc \in {"idle", "done"}
    /\ Len(events) + 2 <= MaxEvents
    /\ e1.occurred_at # e2.occurred_at
    /\ \A i \in 1..Len(events) :
          events[i].occurred_at \notin {e1.occurred_at, e2.occurred_at}
    /\ events' = InsertEvent(InsertEvent(events, e1), e2)
    /\ base' = [events |-> events, runs |-> runs]
    /\ workers' = [w \in Workers |->
                     [pc |-> "filter", branch |-> "none",
                      event |-> IF w = "w1" THEN e1 ELSE e2]]
    /\ UNCHANGED <<runs, path, last, imageVars, otherVars>>

\* worker w evaluates Run.objects.filter(filters, instance=instance).exists()
\* and the elif: the branch is chosen from the runs stored at this moment
FilterRuns(w) ==
    /\ workers[w].pc = "filter"
    /\ workers' = [workers EXCEPT ![w].pc = "act",
                                  ![w].branch = Branch(runs, workers[w].event)]
    /\ UNCHANGED <<events, runs, path, last, base, imageVars, otherVars>>

\* worker w executes the branch it chose: recalculate_runs(event), or the
\* save of the runs of normalize_runs([event]), or nothing
ActOnBranch(w) ==
    /\ workers[w].pc = "act"
    /\ runs' = CASE workers[w].branch = "recalculate"
                     -> recalculate_runs(events, runs, workers[w].event)
                  [] workers[w].branch = "new_run"
                     -> runs \o normalize_runs(<<workers[w].event>>).runs
                  [] OTHER -> runs
    /\ path' = workers[w].branch
    /\ last' = workers[w].event
    /\ workers' = [workers EXCEPT ![w].pc = "done"]
    /\ UNCHANGED <<events, base, imageVars, otherVars>>

Start == \E e1, e2 \in PowerEvents : StartTasks(e1, e2)

Filter == \E w \in Workers : FilterRuns(w)

Act == \E w \in Workers : ActOnBranch(w)

NextWorkers == Start \/ Filter \/ Act

\* histories in which pairs of process_instance_event tasks run concurrently
SpecWorkers == Init /\ [][NextWorkers]_vars

(* --------------------------- image inspection ------------------------ *)

\* a new image of any classification; at most one of the three holds
InitInspection ==
    /\ InitRuns
    /\ InitOther
    /\ \E flags \in {<<FALSE, FALSE, FALSE>>, <<TRUE, FALSE, FALSE>>,
                      <<FALSE, TRUE, FALSE>>, <<FALSE, FALSE, TRUE>>} :
          InitImage(flags[1], flags[2], flags[3])

\* a start that skips only marketplace images
ShortCircuitMarketplaceOnly(img) == img.is_marketplace

\* the image needs no inspection: it is a marketplace image, a cloud access
\* image or an image tagged as RHEL
ShortCircuit(img) ==
    img.is_marketplace \/ img.is_cloud_access \/ img.rhel_detected_by_tag

\* a start that never finds the attempts exceeded
NeverExceedsMaxAllowed(n) == FALSE

\* n MachineImageInspectionStart rows were recorded before this start, and
\* they exceed the allowed attempts
ExceedsMaxAllowed(n) == n > MAX_ALLOWED_INSPECTION_ATTEMPTS

\* n rows were recorded before this start, and with the row of this start
\* they do not exceed the allowed attempts
WithinMaxAllowed(n) == n + 1 <= MAX_ALLOWED_INSPECTION_ATTEMPTS

\* what a start of inspection may leave, n rows having been recorded
\* before it: the status, and whether copy_ami_snapshot is enqueued. A start
\* whose own row is the first to exceed the attempts may count it or not;
\* an image that needs no inspection and exceeds the attempts may be found
\* inspected or in error
StartOutcomes(img, n) ==
    LET skip == [status |-> INSPECTED, copy |-> 0]
        stop == [status |-> ERROR, copy |-> 0]
        go   == [status |-> PREPARING, copy |-> 1]
    IN  IF ShortCircuit(img)
        THEN {skip} \cup (IF WithinMaxAllowed(n) THEN {} ELSE {stop})
        ELSE IF ExceedsMaxAllowed(n) THEN {stop}
        ELSE IF WithinMaxAllowed(n) THEN {go}
        ELSE {stop, go}

\* start_image_inspection(arn, ami_id, region): the start is recorded, the
\* status is saved as preparing and then as the outcome's; copy_ami_snapshot
\* is enqueued unless the image is skipped or stopped
start_image_inspection ==
    /\ inspection_starts < MaxStarts
    /\ inspection_starts' = inspection_starts + 1
    /\ \E o \in StartOutcomes(machine_image, inspection_starts) :
          /\ copy_tasks + o.copy <= MaxMessages
          /\ machine_image' = [machine_image EXCEPT !.status = o.status]
          /\ copy_tasks' = copy_tasks + o.copy
          /\ copies' = copies + o.copy
    /\ UNCHANGED <<volumes, results, received, runVars, otherVars>>

\* the inspection of the new image is started as soon as it is saved
StartNewImage ==
    /\ step = "none"
    /\ machine_image.status = PENDING
    /\ start_image_inspection
    /\ step' = "start"

\* inspect_pending_images: an image that is pending, preparing or inspecting
\* and has not been updated for a while is started again
inspect_pending_images ==
    /\ machine_image.status \in {PENDING, PREPARING, INSPECTING}
    /\ start_image_inspection
    /\ step' = "retry"

\* copy_ami_snapshot and the tasks it leads to: the image or its snapshot
\* cannot be used (error), the image turns out to be a marketplace image
\* (inspected), or the copied volume is enqueued for the attach step
copy_ami_snapshot ==
    /\ copy_tasks > 0
    /\ copy_tasks' = copy_tasks - 1
    /\ \/ /\ machine_image' = [machine_image EXCEPT !.status = ERROR]
          /\ UNCHANGED volumes
       \/ /\ machine_image' = [machine_image EXCEPT !.status = INSPECTED,
                                     !.is_marketplace = TRUE]
          /\ UNCHANGED volumes
       \/ /\ volumes < MaxMessages
          /\ volumes' = volumes + 1
          /\ UNCHANGED machine_image
    /\ step' = "copy"
    /\ UNCHANGED <<inspection_starts, copies, results, received, runVars, otherVars>>

\* the attach step: the image of a ready volume is saved as inspecting;
\* attaching the volume fails (marketplace: inspected; otherwise error) or
\* succeeds, and then the inspection sends its result
attach_volumes_to_cluster ==
    /\ volumes > 0
    /\ volumes' = volumes - 1
    /\ \/ /\ machine_image' = [machine_image EXCEPT !.status = INSPECTED,
                                     !.is_marketplace = TRUE]
          /\ UNCHANGED results
       \/ /\ machine_image' = [machine_image EXCEPT !.status = ERROR]
          /\ UNCHANGED results
       \/ /\ Len(results) < MaxMessages
          /\ machine_image' = [machine_image EXCEPT !.status = INSPECTING]
          /\ \E v \in Verdicts : results' = Append(results, v)
    /\ step' = "attach"
    /\ UNCHANGED <<inspection_starts, copy_tasks, copies, received, runVars, otherVars>>

\* an inspection result that is stored without its text
persist_status_only(img, v) == [img EXCEPT !.status = INSPECTED]

\* persist_aws_inspection_cluster_results for the image: the result is
\* stored as JSON text and the status saved as inspected
persist_aws_inspection_cluster_results(img, v) ==
    [img EXCEPT !.inspection_json = json_dumps(v), !.status = INSPECTED]

\* persist_inspection_cluster_results_task: the next inspection result is
\* read from the queue, persisted and deleted from the queue
persist_inspection_cluster_results_task ==
    /\ results # <<>>
    /\ machine_image' =
         persist_aws_inspection_cluster_results(machine_image, Head(results))
    /\ received' = Head(results)
    /\ results' = Tail(results)
    /\ step' = "persist"
    /\ UNCHANGED <<inspection_starts, copy_tasks, copies, volumes, runVars, otherVars>>

\* reinspect: the image's status is saved as pending
reinspect ==
    /\ machine_image' = [machine_image EXCEPT !.status = PENDING]
    /\ step' = "reinspect"
    /\ UNCHANGED <<inspection_starts, copy_tasks, copies, volumes, results,
                   received, runVars, otherVars>>

NextInspection ==
    \/ StartNewImage
    \/ inspect_pending_images
    \/ copy_ami_snapshot
    \/ attach_volumes_to_cluster
    \/ persist_inspection_cluster_results_task
    \/ reinspect

\* the inspection of one image
SpecInspection == InitInspection /\ [][NextInspection]_vars

\* instance__aws_instance__region__isnull=False: an instance row that is
\* bound to the image is stored
HasRegionInstance ==
    \E i \in InstanceIds : aws_instances[i] = InstanceImage

\* save_instance: an instance that runs the image is stored
SaveImageInstance ==
    /\ aws_instances["i-1"] = "absent"
    /\ aws_instances' =
          [aws_instances EXCEPT !["i-1"] = InstanceImage]
    /\ UNCHANGED <<sqs_queue, successes, failures, aws_images, aws_events,
                   inspected_amis, runVars, imageVars, accountVars,
                   classifyVars, serviceVars>>

\* start_image_inspection once MaxStarts starts are recorded: the attempts
\* are exceeded whatever further rows are recorded
StartAtBound ==
    /\ inspection_starts = MaxStarts
    /\ \E o \in StartOutcomes(machine_image, inspection_starts) :
          /\ copy_tasks + o.copy <= MaxMessages
          /\ machine_image' = [machine_image EXCEPT !.status = o.status]
          /\ copy_tasks' = copy_tasks + o.copy
          /\ copies' = copies + o.copy
    /\ UNCHANGED <<inspection_starts, volumes, results, received, runVars,
                   otherVars>>

\* inspect_pending_images with its query: the image is found when its
\* status is restartable and an instance with a region is bound to it
RestartPendingImage ==
    /\ machine_image.status \in {PENDING, PREPARING, INSPECTING}
    /\ HasRegionInstance
    /\ start_image_inspection \/ StartAtBound
    /\ step' = "retry"

\* the attach step of an inspection that never sends a result: the image
\* is saved as inspecting and the volume is attached
InspectWithoutResult ==
    /\ volumes > 0
    /\ volumes' = volumes - 1
    /\ machine_image' = [machine_image EXCEPT !.status = INSPECTING]
    /\ step' = "attach"
    /\ UNCHANGED <<inspection_starts, copy_tasks, copies, results, received,
                   runVars, otherVars>>

\* reinspect is requested for an image whose inspection was started, while
\* starts may still be recorded
ReinspectWithinBound ==
    /\ step # "none"
    /\ inspection_starts < MaxStarts
    /\ reinspect

\* the tasks on the ready volume: the inspection sends a result or not
RunInspection == attach_volumes_to_cluster \/ InspectWithoutResult

NextPeriodic ==
    \/ SaveImageInstance
    \/ StartNewImage
    \/ RestartPendingImage
    \/ copy_ami_snapshot
    \/ attach_volumes_to_cluster
    \/ InspectWithoutResult
    \/ persist_inspection_cluster_results_task
    \/ ReinspectWithinBound

\* inspect_pending_images is scheduled again and again and every task that
\* waits in a queue is executed
SpecPeriodic ==
    /\ InitInspection
    /\ [][NextPeriodic]_vars
    /\ WF_vars(StartNewImage)
    /\ WF_vars(RestartPendingImage)
    /\ WF_vars(copy_ami_snapshot)
    /\ WF_vars(RunInspection)
    /\ WF_vars(persist_inspection_cluster_results_task)

(* ------------------------- CloudTrail log analysis -------------------- *)

\* the database the log analysis reads and writes
Database ==
    [images |-> aws_images, instances |-> aws_instances,
     events |-> aws_events, inspected |-> inspected_amis]

\* the AMI ids a list of events carries
EventAmiIds(evs) == {evs[k].ec2_ami_id : k \in 1..Len(evs)} \ {NoAmi}

\* the instance event carries both an instance type and an AMI id
_instance_event_is_complete(e) ==
    e.instance_type # NoType /\ e.ec2_ami_id # NoAmi

\* the instances _load_missing_instance_data does not describe: an event
\* of the message is complete, or the stored instance has an image and a
\* stored event of it has an instance type
DefinedInstanceIds(db, ies) ==
    {ies[k].ec2_instance_id : k \in {j \in 1..Len(ies) :
        \/ _instance_event_is_complete(ies[j])
        \/ /\ db.instances[ies[j].ec2_instance_id] \in AmiIds
           /\ \E ev \in db.events :
                 /\ ev.ec2_instance_id = ies[j].ec2_instance_id
                 /\ ev.instance_type # NoType}}

\* _load_missing_instance_data: AwsCloudAccount.objects.get runs for every
\* account that has an instance to describe; the events that lack an AMI id
\* take the ImageId of the description
_load_missing_instance_data(db, ies) ==
    LET missing == {ies[k].ec2_instance_id : k \in 1..Len(ies)}
                      \ DefinedInstanceIds(db, ies)
    IN  IF \E k \in 1..Len(ies) :
              /\ ies[k].ec2_instance_id \in missing
              /\ ies[k].aws_account_id \notin AwsCloudAccounts
        THEN [raised |-> TRUE, described |-> {}, instance_events |-> ies]
        ELSE [raised |-> FALSE, described |-> missing,
              instance_events |->
                [k \in 1..Len(ies) |->
                    IF /\ ies[k].ec2_ami_id = NoAmi
                       /\ ies[k].ec2_instance_id \in missing
                    THEN [ies[k] EXCEPT
                            !.ec2_ami_id =
                                DescribedImageId(ies[k].ec2_instance_id)]
                    ELSE ies[k]]]

\* _load_missing_ami_data: AwsCloudAccount.objects.get runs for every
\* account that names an AMI no row is stored for
_load_missing_ami_data(db, ies, tes) ==
    LET seen_ami_ids == EventAmiIds(ies) \cup EventAmiIds(tes)
        new_ami_ids == {a \in seen_ami_ids : db.images[a] = NoRow}
        all == ies \o tes
    IN  IF \E k \in 1..Len(all) :
              /\ all[k].ec2_ami_id \in new_ami_ids
              /\ all[k].aws_account_id \notin AwsCloudAccounts
        THEN [raised |-> TRUE, described |-> {}]
        ELSE [raised |-> FALSE, described |-> new_ami_ids \cap DescribableAmis]

\* positions i..j are one group of itertools.groupby(tes, key=ec2_ami_id):
\* a longest stretch of neighbouring events of one AMI
TagGroup(tes, i, j) ==
    /\ i <= j
    /\ \A k \in i..j : tes[k].ec2_ami_id = tes[i].ec2_ami_id
    /\ i > 1 => tes[i - 1].ec2_ami_id # tes[i].ec2_ami_id
    /\ j < Len(tes) => tes[j + 1].ec2_ami_id # tes[i].ec2_ami_id

\* sorted(events_info, key=occurred_at)[-1]: the sort is stable, so of the
\* events with the greatest occurred_at the last of the group is taken
LatestOfGroup(tes, i, j) ==
    tes[CHOOSE k \in i..j :
          \A l \in i..j :
             \/ tes[l].occurred_at < tes[k].occurred_at
             \/ tes[l].occurred_at = tes[k].occurred_at /\ l <= k]

\* ocp_tagged_ami_ids (exists) and ocp_untagged_ami_ids (not exists): the
\* AMIs that have a group whose latest event creates, or deletes, the tag
TaggedAmiIds(tes, exists) ==
    {tes[i].ec2_ami_id : i \in {k \in 1..Len(tes) :
        \E j \in k..Len(tes) :
           /\ TagGroup(tes, k, j)
           /\ LatestOfGroup(tes, k, j).exists = exists}}

\* the image of the instance row save_instance writes: a bound image is
\* kept; otherwise the described ImageId, or the AMI id of the events
SavedInstanceImage(db, ies, described_instances, i) ==
    LET carrying == {k \in 1..Len(ies) :
                        /\ ies[k].ec2_instance_id = i
                        /\ ies[k].ec2_ami_id # NoAmi}
    IN  IF db.instances[i] \in AmiIds THEN db.instances[i]
        ELSE IF i \in described_instances THEN DescribedImageId(i)
        ELSE IF carrying # {}
             THEN ies[CHOOSE k \in carrying : \A l \in carrying : k <= l]
                     .ec2_ami_id
        ELSE NoAmi

\* an analysis that stores no stub for an image it could not describe
UnavailableAmiIdsNone(seen, described, images) == {}

\* unavailable_ami_ids: the AMIs seen that were not described and have no row
UnavailableAmiIds(seen, described, images) ==
    {a \in seen \ described : images[a] = NoRow}

\* _save_cloudtrail_activity, one transaction: new images, unavailable
\* stubs, tag changes (tagged first, then untagged), instances, events.
\* AwsCloudAccount.objects.get inside it rolls everything back.
_save_cloudtrail_activity(db, ies, tes, instances, images) ==
    LET ocp_tagged_ami_ids == TaggedAmiIds(tes, TRUE)
        ocp_untagged_ami_ids == TaggedAmiIds(tes, FALSE)
        new_images == {a \in images : db.images[a] = NoRow}
        created == [a \in AmiIds |->
                       IF a \in new_images
                       THEN [status |-> PENDING,
                             openshift_detected |-> a \in ocp_tagged_ami_ids]
                       ELSE db.images[a]]
        seen_ami_ids ==
            {DescribedImageId(i) : i \in instances}
               \cup EventAmiIds(tes) \cup EventAmiIds(ies)
        unavailable_ami_ids ==
            UnavailableAmiIds(seen_ami_ids, images, created)
        stubbed == [a \in AmiIds |->
                       IF a \in unavailable_ami_ids
                       THEN [status |-> UNAVAILABLE,
                             openshift_detected |-> FALSE]
                       ELSE created[a]]
        tagged == [a \in AmiIds |->
                      IF a \in ocp_tagged_ami_ids /\ stubbed[a] # NoRow
                      THEN [stubbed[a] EXCEPT !.openshift_detected = TRUE]
                      ELSE stubbed[a]]
        untagged == [a \in AmiIds |->
                        IF a \in ocp_untagged_ami_ids /\ tagged[a] # NoRow
                        THEN [tagged[a] EXCEPT !.openshift_detected = FALSE]
                        ELSE tagged[a]]
        event_instances == {ies[k].ec2_instance_id : k \in 1..Len(ies)}
    IN  IF \E k \in 1..Len(ies) : ies[k].aws_account_id \notin AwsCloudAccounts
        THEN [raised |-> TRUE, db |-> db, new_images |-> {}]
        ELSE [raised |-> FALSE,
              db |-> [db EXCEPT
                 !.images = untagged,
                 !.instances =
                    [i \in InstanceIds |->
                        IF i \in event_instances
                        THEN SavedInstanceImage(db, ies,
                                                instances, i)
                        ELSE db.instances[i]],
                 !.events = db.events \cup
                    {[ec2_instance_id |-> ies[k].ec2_instance_id,
                      instance_type |-> ies[k].instance_type] :
                        k \in 1..Len(ies)}],
              new_images |-> new_images]

\* a json.loads that accepts any content
JsonDecodeErrorNever(message) == FALSE

\* json.loads(raw_content) raises for content that is not JSON
JsonDecodeError(message) == ~message.valid_json

\* _process_cloudtrail_message: "Exception" when json.loads fails,
\* "DoesNotExist" when a load step finds no account, otherwise the boolean
\* the function returns, as "True" or "False"
_process_cloudtrail_message(db, message) ==
    IF JsonDecodeError(message) THEN [result |-> "Exception", db |-> db]
    ELSE
    LET loaded == _load_missing_instance_data(db, message.instance_events)
        described_amis ==
            _load_missing_ami_data(db, loaded.instance_events,
                                   message.ami_tag_events)
        saved == _save_cloudtrail_activity(db, loaded.instance_events,
                     message.ami_tag_events, loaded.described,
                     described_amis.described)
    IN  IF loaded.raised \/ described_amis.raised
        THEN [result |-> "DoesNotExist", db |-> db]
        ELSE IF saved.raised THEN [result |-> "False", db |-> db]
        ELSE [result |-> "True",
              db |-> [saved.db EXCEPT
                 !.inspected = @ \cup
                    {a \in saved.new_images :
                        saved.db.images[a].status = PENDING}]]

\* a pass that gives up at the first message that fails
StopAtFirstFailure(result) == result \in {"False", "Exception"}

\* analyze_log goes on to the next message whatever the last one did
StopsAfter(result) == FALSE

\* the loop of analyze_log over the received messages: a message of an
\* unknown account is deleted, a success is deleted and listed, a failure
\* is listed and stays on the queue
\* the lists and the database after one message was processed with
\* outcome done
AfterMessage(acc, message, done) ==
    CASE done.result = "DoesNotExist" -> [acc EXCEPT !.db = done.db]
      [] done.result = "True" ->
            [acc EXCEPT !.db = done.db,
                        !.successes = Append(@, message.message_id)]
      [] OTHER ->
            [acc EXCEPT !.db = done.db,
                        !.failures = Append(@, message.message_id),
                        !.queue = Append(@, message)]

RECURSIVE analyze_messages(_, _)
analyze_messages(acc, messages) ==
    IF messages = <<>> THEN acc
    ELSE
    LET message == Head(messages)
    IN  CHOOSE pass \in
           {IF StopsAfter(done.result)
            THEN [AfterMessage(acc, message, done)
                     EXCEPT !.queue = @ \o Tail(messages)]
            ELSE analyze_messages(AfterMessage(acc, message, done),
                                  Tail(messages)) :
              done \in {_process_cloudtrail_message(acc.db, message)}} :
           TRUE

\* the payloads of single-event CloudTrail logs, and a corrupt object: an
\* instance event is complete (RunInstances of "i-1" from "ami-a") or
\* carries neither type nor image (of "i-2"); a tag event names "ami-a",
\* or "ami-x" for the enrolled account
LogPayloads ==
    {[valid_json |-> FALSE, instance_events |-> <<>>,
      ami_tag_events |-> <<>>]}
    \cup {[valid_json |-> TRUE,
           instance_events |-> <<CloudTrailInstanceEvent(acct, ia[1], ia[2],
                    IF ia[2] = NoAmi THEN NoType ELSE "t2.micro")>>,
           ami_tag_events |-> <<>>] :
             acct \in AwsAccountIds,
             ia \in {<<"i-1", "ami-a">>, <<"i-2", NoAmi>>}}
    \cup {[valid_json |-> TRUE, instance_events |-> <<>>,
           ami_tag_events |-> <<CloudTrailImageTagEvent(aa[1], aa[2], 1, TRUE)>>] :
             aa \in {<<"acct-1", "ami-a">>, <<"acct-1", "ami-x">>,
                      <<"acct-2", "ami-a">>}}

\* the tag events of a CloudTrail log
TagEvents ==
    {CloudTrailImageTagEvent("acct-1", a, t, x) :
        a \in Images, t \in 1..MaxTagTime, x \in BOOLEAN}

\* the payloads of CloudTrail logs that carry up to MaxTagEvents tag events
TagPayloads ==
    {[valid_json |-> TRUE, instance_events |-> <<>>, ami_tag_events |-> tes] :
        tes \in UNION {[1..n -> TagEvents] : n \in 1..MaxTagEvents}}

\* a message id no message on the queue has
FreshMessageId == CHOOSE n \in 1..(MaxQueue + 1) :
    \A k \in 1..Len(sqs_queue) : sqs_queue[k].message_id # n

\* S3 notifies the queue of a new CloudTrail log object
SendMessage(payload) ==
    /\ sqs_queue' = Append(sqs_queue,
          Message(FreshMessageId, payload.valid_json,
                  payload.instance_events, payload.ami_tag_events))
    /\ UNCHANGED <<successes, failures, aws_images, aws_instances,
                   aws_events, inspected_amis, runVars, imageVars,
                   accountVars, classifyVars,
                   serviceVars>>

\* a log of one event arrives while the queue has room
SendLog ==
    /\ Len(sqs_queue) < MaxQueue
    /\ \E payload \in LogPayloads : SendMessage(payload)

\* a log of tag events arrives once the log before it has been analysed
SendTagLog ==
    /\ sqs_queue = <<>>
    /\ \E payload \in TagPayloads : SendMessage(payload)

\* one run of the analyze_log task over the messages on the queue
analyze_log ==
    /\ sqs_queue # <<>>
    /\ LET pass == analyze_messages(
                      [db |-> Database, successes |-> <<>>,
                       failures |-> <<>>, queue |-> <<>>], sqs_queue)
       IN  /\ sqs_queue' = pass.queue
           /\ successes' = pass.successes
           /\ failures' = pass.failures
           /\ aws_images' = pass.db.images
           /\ aws_instances' = pass.db.instances
           /\ aws_events' = pass.db.events
           /\ inspected_amis' = pass.db.inspected
    /\ UNCHANGED <<runVars, imageVars, accountVars, classifyVars,
                   serviceVars>>

NextAnalyzer == SendLog \/ analyze_log

\* CloudTrail logs of instance events and single tag events are analysed
SpecAnalyzer == Init /\ [][NextAnalyzer]_vars

NextTags == SendTagLog \/ analyze_log

\* CloudTrail logs of several tag events are analysed
SpecTags == Init /\ [][NextTags]_vars

(* ---------------------------- account deletion ------------------------ *)

\* how disable_cloudtrail may end: "none" when it succeeds, otherwise the
\* error code of the ClientError it raises
CloudTrailErrors ==
    {"none", "AccessDenied", "AccessDeniedException",
     "TrailNotFoundException", "OtherException"}

\* a deletion that only tolerates AccessDenied
WarningOnlyAccessDenied(error) == error = "AccessDenied"

\* a deletion that tolerates every error
WarningAlways(error) == TRUE

\* the error codes the deletion logs as a warning and goes on
WarningOnly(error) ==
    error \in {"AccessDenied", "AccessDeniedException",
               "TrailNotFoundException"}

\* the stored instances of the account
InstancesOf(a) ==
    {i \in InstanceIds : account_instances[i].cloud_account = a}

\* the images the given instances reference
ImagesOf(ids) == {account_instances[i].machine_image : i \in ids} \ {NoAmi}

\* a clean-up that deletes every image the deleted instances referenced
ReferencedImages(deleted) == ImagesOf(deleted)

\* the images to clean up with the deleted instances: those that no other
\* instance references
OrphanedImages(deleted) ==
    ImagesOf(deleted) \ ImagesOf(InstanceIds \ deleted)

\* a deletion that leaves the rows of the deleted instances behind
KeptRows(rows, deleted) == rows

\* the InstanceEvent or Run rows after the cascade from the instances
CascadedRows(rows, deleted) ==
    [i \in InstanceIds |-> IF i \in deleted THEN 0 ELSE rows[i]]

\* the number of rows of the given instances
RECURSIVE SumRows(_, _)
SumRows(rows, ids) ==
    IF ids = {} THEN 0
    ELSE LET i == CHOOSE x \in ids : TRUE
         IN  rows[i] + SumRows(rows, ids \ {i})

\* Instance rows are deleted in one transaction: their events and runs go
\* with them, and so do the images no other instance references
DeleteInstances(deleted) ==
    /\ account_instances' =
          [i \in InstanceIds |->
              IF i \in deleted THEN NoInstance ELSE account_instances[i]]
    /\ event_rows' = CascadedRows(event_rows, deleted)
    /\ run_rows' = CascadedRows(run_rows, deleted)
    /\ image_rows' = image_rows \ OrphanedImages(deleted)

\* an account is enrolled
CreateAccount ==
    /\ \E a \in AwsAccountIds :
          /\ a \notin cloud_accounts
          /\ cloud_accounts' = cloud_accounts \cup {a}
    /\ UNCHANGED <<account_instances, event_rows, run_rows, image_rows,
                   last_delete, runVars, imageVars, analyzerVars,
                   classifyVars,
                   serviceVars>>

\* an instance of an enrolled account is saved, with or without an image
SaveInstance ==
    /\ \E a \in cloud_accounts, i \in InstanceIds,
          image \in {InstanceImage, NoAmi} :
          /\ account_instances[i] = NoInstance
          /\ account_instances' =
                [account_instances EXCEPT
                    ![i] = [cloud_account |-> a, machine_image |-> image]]
          /\ image_rows' = image_rows \cup ({image} \ {NoAmi})
    /\ UNCHANGED <<cloud_accounts, event_rows, run_rows, last_delete,
                   runVars, imageVars, analyzerVars, classifyVars,
                   serviceVars>>

\* an event of a stored instance is saved
SaveInstanceEvent ==
    /\ \E i \in InstanceIds :
          /\ account_instances[i] # NoInstance
          /\ event_rows[i] < MaxRows
          /\ event_rows' = [event_rows EXCEPT ![i] = @ + 1]
    /\ UNCHANGED <<cloud_accounts, account_instances, run_rows, image_rows,
                   last_delete, runVars, imageVars, analyzerVars,
                   classifyVars,
                   serviceVars>>

\* a run of a stored instance is saved
SaveRun ==
    /\ \E i \in InstanceIds :
          /\ account_instances[i] # NoInstance
          /\ run_rows[i] < MaxRows
          /\ run_rows' = [run_rows EXCEPT ![i] = @ + 1]
    /\ UNCHANGED <<cloud_accounts, account_instances, event_rows, image_rows,
                   last_delete, runVars, imageVars, analyzerVars,
                   classifyVars,
                   serviceVars>>

\* CloudAccount.delete: disable_cloudtrail first; an error that is not a
\* warning raises CloudTrailCannotStopLogging and nothing is deleted;
\* otherwise the account row goes and the deletion cascades
delete(a, error) ==
    /\ a \in cloud_accounts
    /\ IF error = "none" \/ WarningOnly(error)
       THEN /\ cloud_accounts' = cloud_accounts \ {a}
            /\ DeleteInstances(InstancesOf(a))
            /\ last_delete' =
                  [account |-> a, error |-> error, raised |-> "none",
                   rows |-> SumRows(event_rows, InstancesOf(a))
                               + SumRows(run_rows, InstancesOf(a)),
                   images |-> image_rows \ image_rows']
       ELSE /\ last_delete' =
                  [account |-> a, error |-> error,
                   raised |-> "CloudTrailCannotStopLogging",
                   rows |-> 0, images |-> {}]
            /\ UNCHANGED <<cloud_accounts, account_instances, event_rows,
                           run_rows, image_rows>>
    /\ UNCHANGED <<runVars, imageVars, analyzerVars, classifyVars,
                   serviceVars>>

DeleteAccount == \E a \in AwsAccountIds, error \in CloudTrailErrors :
    delete(a, error)

\* Instance.delete of one stored instance
DeleteInstance ==
    /\ \E i \in InstanceIds :
          /\ account_instances[i] # NoInstance
          /\ DeleteInstances({i})
    /\ UNCHANGED <<cloud_accounts, last_delete, runVars, imageVars,
                   analyzerVars, classifyVars,
                   serviceVars>>

NextAccounts ==
    \/ CreateAccount
    \/ SaveInstance
    \/ SaveInstanceEvent
    \/ SaveRun
    \/ DeleteAccount
    \/ DeleteInstance

\* accounts are enrolled, used and deleted
SpecAccounts == Init /\ [][NextAccounts]_vars

(* --------------------------- image classification --------------------- *)

\* CLOUD_ACCESS_NAME_TOKEN, '-Access2', character by character
CLOUD_ACCESS_NAME_TOKEN == <<"-", "A", "c", "c", "e", "s", "s", "2">>

\* MARKETPLACE_NAME_TOKEN, '-hourly2', character by character
MARKETPLACE_NAME_TOKEN == <<"-", "h", "o", "u", "r", "l", "y", "2">>

\* settings.RHEL_IMAGES_AWS_ACCOUNTS
RHEL_IMAGES_AWS_ACCOUNTS == {"owner-rh"}

\* the owner ids an image may have; "none" is a null owner_aws_account_id
OwnerIds == {"owner-rh", "owner-other", "none"}

\* the lower-case letter of each upper-case letter of the names
LowerOf ==
    [ch \in {"A", "C", "E", "S", "H", "O", "U", "R", "L", "Y", "X"} |->
        CASE ch = "A" -> "a" [] ch = "C" -> "c" [] ch = "E" -> "e"
          [] ch = "S" -> "s" [] ch = "H" -> "h" [] ch = "O" -> "o"
          [] ch = "U" -> "u" [] ch = "R" -> "r" [] ch = "L" -> "l"
          [] ch = "Y" -> "y" [] ch = "X" -> "x"]

\* str.lower of one character
lower_char(ch) == IF ch \in DOMAIN LowerOf THEN LowerOf[ch] ELSE ch

\* str.upper of one character
upper_char(ch) ==
    IF \E up \in DOMAIN LowerOf : LowerOf[up] = ch
    THEN CHOOSE up \in DOMAIN LowerOf : LowerOf[up] = ch
    ELSE ch

\* str.lower
lower(s) == [k \in 1..Len(s) |-> lower_char(s[k])]

\* str.upper
upper(s) == [k \in 1..Len(s) |-> upper_char(s[k])]

\* t in s, for strings
Contains(s, t) ==
    \E i \in 0..(Len(s) - Len(t)) : SubSeq(s, i + 1, i + Len(t)) = t

\* a check that compares the name as it is written
TokenInNameExact(token, name) == Contains(name, token)

\* TOKEN.lower() in name.lower()
TokenInName(token, name) == Contains(lower(name), lower(token))

\* a check that does not look at the owner
OwnerAny(owner) == TRUE

\* owner_aws_account_id in settings.RHEL_IMAGES_AWS_ACCOUNTS
OwnerIsRhel(owner) == owner \in RHEL_IMAGES_AWS_ACCOUNTS

\* a null name
NoName == <<>>

\* AwsMachineImage.is_cloud_access
is_cloud_access(img) ==
    /\ img.name # NoName
    /\ TokenInName(CLOUD_ACCESS_NAME_TOKEN, img.name)
    /\ OwnerIsRhel(img.owner)

\* AwsMachineImage.is_marketplace
is_marketplace(img) ==
    /\ img.name # NoName
    /\ TokenInName(MARKETPLACE_NAME_TOKEN, img.name)
    /\ OwnerIsRhel(img.owner)

\* the stored image: the AwsMachineImage with its MachineImage row
StoredImage ==
    [name |-> named_image.name, owner |-> named_image.owner,
     inspection_json |-> image_json, rhel_challenged |-> rhel_challenged]

\* image_json.get(key, False) of the inspection_json, False without one
JsonFlag(img, key) ==
    IF img.inspection_json # NoJson
    THEN LET image_json_loaded == json_loads(img.inspection_json)
         IN  IF key \in DOMAIN image_json_loaded
             THEN image_json_loaded[key] ELSE FALSE
    ELSE FALSE

\* MachineImage.rhel_detected: is_cloud_access or one of
\* rhel_enabled_repos_found, rhel_product_certs_found,
\* rhel_release_files_found, rhel_signed_packages_found
rhel_detected(img) ==
    \/ is_cloud_access(img)
    \/ \E k \in 1..Len(JsonKeys) : JsonFlag(img, JsonKeys[k])

\* MachineImage.rhel: operator.xor(rhel_detected, rhel_challenged)
rhel(img) == rhel_detected(img) # img.rhel_challenged

\* the name with the case of its k-th character changed
FlipAt(s, k) ==
    [s EXCEPT ![k] = IF lower_char(s[k]) = s[k] THEN upper_char(s[k])
                     ELSE lower_char(s[k])]

\* the name as written, in lower case, in upper case, and with the case of
\* one character changed
Recased(s) == {s, lower(s), upper(s)} \cup {FlipAt(s, k) : k \in 1..Len(s)}

\* the names images are saved with: a cloud access name, a marketplace
\* name and a name with neither token, in several casings, and no name
ImageNames ==
    {NoName}
    \cup Recased(<<"x">> \o CLOUD_ACCESS_NAME_TOKEN)
    \cup Recased(<<"x">> \o MARKETPLACE_NAME_TOKEN)
    \cup Recased(<<"x", "-", "h", "o", "u", "r", "l", "y">>)

\* an image is saved with a name and an owner
SaveNamedImage ==
    /\ \E name \in ImageNames, owner \in OwnerIds :
          named_image' = [name |-> name, owner |-> owner]
    /\ classified' = NotClassified
    /\ image_json' = NoJson
    /\ rhel_challenged' = FALSE
    /\ rhel_read' = [rhel |-> FALSE, rhel_detected |-> FALSE]
    /\ UNCHANGED <<runVars, imageVars, analyzerVars, accountVars,
                   serviceVars>>

\* image.name = image.name.upper() or image.name.lower(), then save
RenameImage ==
    /\ named_image # NoNamedImage
    /\ \E name \in {upper(named_image.name), lower(named_image.name)} :
          named_image' = [named_image EXCEPT !.name = name]
    /\ UNCHANGED <<classified, rhelVars, runVars, imageVars, analyzerVars,
                   accountVars,
                   serviceVars>>

\* the two properties of the stored image are read
ReadClassification ==
    /\ named_image # NoNamedImage
    /\ classified' = [read |-> TRUE,
                      is_marketplace |-> is_marketplace(named_image),
                      is_cloud_access |-> is_cloud_access(named_image)]
    /\ rhel_read' = [rhel |-> rhel(StoredImage),
                     rhel_detected |-> rhel_detected(StoredImage)]
    /\ UNCHANGED <<named_image, image_json, rhel_challenged, runVars,
                   imageVars, analyzerVars, accountVars,
                   serviceVars>>

\* MachineImageSerializer.update: a user sets or unsets rhel_challenged
update ==
    /\ named_image # NoNamedImage
    /\ \E challenged \in BOOLEAN : rhel_challenged' = challenged
    /\ UNCHANGED <<named_image, classified, image_json, rhel_read, runVars,
                   imageVars, analyzerVars, accountVars,
                   serviceVars>>

\* the inspection results of the image are saved as its inspection_json
SaveInspectionJson ==
    /\ named_image # NoNamedImage
    /\ \E v \in Verdicts : image_json' = json_dumps(v)
    /\ UNCHANGED <<named_image, classified, rhel_challenged, rhel_read,
                   runVars, imageVars, analyzerVars, accountVars,
                   serviceVars>>

NextClassify ==
    \/ SaveNamedImage
    \/ RenameImage
    \/ ReadClassification
    \/ update
    \/ SaveInspectionJson

\* images are saved, renamed and classified
SpecClassify == Init /\ [][NextClassify]_vars

(* ------------------------ availability notifier ----------------------- *)

\* http.HTTPStatus.NO_CONTENT
NO_CONTENT == 204

\* http.HTTPStatus.NOT_FOUND
NOT_FOUND == 404

\* the status codes sources-api answers with
StatusCodes == {200, NO_CONTENT, 400, NOT_FOUND, 500}

\* the answers to requests.patch: a status code, or no answer at all
Responses ==
    {Response(TRUE, code) : code \in StatusCodes} \cup {Response(FALSE, 0)}

\* notify_sources_application_availability: requests.patch raises when the
\* service is unreachable; 404 is logged at info level; any status other
\* than 204 raises SourcesAPINotOkStatus
notify_sources_application_availability(response) ==
    IF ~response.reached THEN "ConnectionError"
    ELSE IF response.status_code = NOT_FOUND THEN "info"
    ELSE IF response.status_code # NO_CONTENT THEN "SourcesAPINotOkStatus"
    ELSE "updated"

\* the exception of the notifier is raised out of the account operation
NotifyErrorRaised(outcome) ==
    outcome \in {"ConnectionError", "SourcesAPINotOkStatus"}

\* the account operation logs the exception of the notifier and goes on
NotifyErrorFails(outcome) == FALSE

\* CloudAccount.enable / CloudAccount.disable: is_enabled is saved, then
\* the availability is reported
SetEnabled(a, enable, response) ==
    LET outcome == notify_sources_application_availability(response)
        raised == outcome \in {"ConnectionError", "SourcesAPINotOkStatus"}
        failed == NotifyErrorFails(outcome)
    IN  /\ is_enabled' = IF failed THEN is_enabled
                         ELSE [is_enabled EXCEPT ![a] = enable]
        /\ sources_status' =
              IF outcome = "updated"
              THEN [sources_status EXCEPT
                      ![a] = IF enable THEN "available" ELSE "unavailable"]
              ELSE sources_status
        /\ last_notify' =
              [account |-> a, enable |-> enable, response |-> response,
               outcome |-> outcome, warned |-> raised /\ ~failed,
               failed |-> failed]
        /\ UNCHANGED notifyFrame

\* CloudAccount.enable
enable ==
    \E a \in AwsAccountIds, response \in Responses :
       SetEnabled(a, TRUE, response)

\* CloudAccount.disable, as the disable_accounts command calls it
disable ==
    \E a \in AwsAccountIds, response \in Responses :
       SetEnabled(a, FALSE, response)

NextNotify == enable \/ disable

\* the disable_accounts command: every account is disabled and its
\* availability reported
disable_accounts ==
    \E response \in Responses :
       LET outcome == notify_sources_application_availability(response)
       IN  /\ is_enabled' = [a \in AwsAccountIds |-> FALSE]
           /\ sources_status' =
                 IF outcome = "updated"
                 THEN [a \in AwsAccountIds |-> "unavailable"]
                 ELSE sources_status
           /\ last_notify' =
                 [account |-> "acct-2", enable |-> FALSE,
                  response |-> response,
                  outcome |-> outcome,
                  warned |-> outcome \in {"ConnectionError",
                                          "SourcesAPINotOkStatus"},
                  failed |-> FALSE]
           /\ UNCHANGED notifyFrame

NextDisabled == disable_accounts \/ SendLog \/ analyze_log

\* CloudTrail logs arrive and are analysed before and after the accounts
\* are disabled
SpecDisabled == Init /\ [][NextDisabled]_vars

\* accounts are enabled and disabled while sources-api answers anything
SpecNotify == Init /\ [][NextNotify]_vars

(* ------------------------ steps of the ingest tasks -------------------- *)

\* one step of an ingest task: from position `from` to position `to`,
\* waiting on the AWS call `call` ("none" for a step that makes no call)
Step(from, to, call) ==
    /\ ingest_pc = from
    /\ ingest_pc' = to
    /\ cloud_call' = call
    /\ UNCHANGED ingestFrame

\* the AMI ids of the gathered data that have no row
NewAmiIds == seen_amis \ stored_amis

\* initial_aws_describe_instances: aws.describe_instances_everywhere
describe_instances_everywhere ==
    /\ Step("idle", "discovered", "describe_instances")
    /\ seen_amis' \in SUBSET AmiIds
    /\ UNCHANGED <<transaction_open, stored_amis>>

\* initial_aws_describe_instances: with transaction.atomic()
discovery_atomic ==
    /\ Step("discovered", "discovery_begun", "none")
    /\ transaction_open' = TRUE
    /\ UNCHANGED <<seen_amis, stored_amis>>

\* create_new_machine_images: aws.describe_images for the new AMI ids of
\* the region, if it has any
create_describe_images ==
    /\ Step("discovery_begun", "discovery_described",
            IF NewAmiIds # {} THEN "describe_images" ELSE "none")
    /\ UNCHANGED <<transaction_open, seen_amis, stored_amis>>

\* create_new_machine_images: save_new_aws_machine_image for each image
\* described, then create_initial_aws_instance_events
create_save_images ==
    /\ Step("discovery_described", "discovery_saved", "none")
    /\ stored_amis' = stored_amis \cup (NewAmiIds \cap DescribableAmis)
    /\ UNCHANGED <<transaction_open, seen_amis>>

\* initial_aws_describe_instances: the with block ends and commits, the
\* inspection of the new images is started
discovery_commit ==
    /\ Step("discovery_saved", "idle", "none")
    /\ transaction_open' = FALSE
    /\ seen_amis' = {}
    /\ UNCHANGED stored_amis

\* _process_cloudtrail_message: aws.get_object_content_from_s3 and the
\* extraction of the events
get_object_content_from_s3 ==
    /\ Step("idle", "log_read", "get_object")
    /\ seen_amis' \in SUBSET AmiIds
    /\ UNCHANGED <<transaction_open, stored_amis>>

\* _load_missing_instance_data: aws.describe_instances for the instances
\* whose events are incomplete, if there are any
load_missing_instance_data ==
    /\ \E incomplete \in BOOLEAN :
          Step("log_read", "instances_loaded",
               IF incomplete THEN "describe_instances" ELSE "none")
    /\ UNCHANGED <<transaction_open, seen_amis, stored_amis>>

\* _load_missing_ami_data: aws.describe_images for the AMI ids without a
\* row, if there are any
load_missing_ami_data ==
    /\ Step("instances_loaded", "amis_loaded",
            IF NewAmiIds # {} THEN "describe_images" ELSE "none")
    /\ UNCHANGED <<transaction_open, seen_amis, stored_amis>>

\* _save_cloudtrail_activity is entered: @transaction.atomic
save_atomic ==
    /\ Step("amis_loaded", "save_begun", "none")
    /\ transaction_open' = TRUE
    /\ UNCHANGED <<seen_amis, stored_amis>>

\* _save_cloudtrail_activity: the rows are written from the data gathered
\* before (an image that was not described gets an UNAVAILABLE row)
save_rows ==
    /\ Step("save_begun", "save_written", "none")
    /\ stored_amis' = stored_amis \cup seen_amis
    /\ UNCHANGED <<transaction_open, seen_amis>>

\* _save_cloudtrail_activity returns and commits, the inspection of the
\* new images is started
save_commit ==
    /\ Step("save_written", "idle", "none")
    /\ transaction_open' = FALSE
    /\ seen_amis' = {}
    /\ UNCHANGED stored_amis

NextIngest ==
    \/ describe_instances_everywhere
    \/ discovery_atomic
    \/ create_describe_images
    \/ create_save_images
    \/ discovery_commit
    \/ get_object_content_from_s3
    \/ load_missing_instance_data
    \/ load_missing_ami_data
    \/ save_atomic
    \/ save_rows
    \/ save_commit

\* initial discoveries and CloudTrail messages are processed step by step
SpecIngest == Init /\ [][NextIngest]_vars

(* ----------------- concurrent inspect_pending_images ------------------ *)

\* an image row in status pending that was last updated before
\* INSPECT_PENDING_IMAGES_MIN_AGE is stored (its instance has a region)
SaveOldPendingImage ==
    /\ \E a \in DescribableAmis :
          /\ inspect_rows[a].status = "none"
          /\ inspect_rows' =
                [inspect_rows EXCEPT ![a] = [status |-> PENDING,
                                             recent |-> FALSE]]
    /\ UNCHANGED <<invocations, delayed, pendingFrame>>

\* restartable_statuses
RestartableStatuses == {PENDING, PREPARING, INSPECTING}

\* the rows invocation k finds locked: those the other invocation has
\* written and not committed; the query takes no lock
LockedByOther(k, images) ==
    UNION {invocations[j].images :
              j \in {i \in Invocations \ {k} : invocations[i].pc = "started"}}
       \cap images

\* the transaction begins and the query runs: the images in a restartable
\* status not updated since updated_since, as committed
QueryPending(k) ==
    /\ invocations[k].pc = "idle"
    /\ invocations' =
          [invocations EXCEPT ![k] =
              [pc |-> "queried",
               images |-> {a \in DescribableAmis :
                             /\ inspect_rows[a].status \in RestartableStatuses
                             /\ ~inspect_rows[a].recent}]]
    /\ delayed' = [delayed EXCEPT ![k] = {}]
    /\ UNCHANGED <<inspect_rows, pendingFrame>>

\* the loop: start_image_inspection saves each image found as preparing
\* and calls copy_ami_snapshot.delay for it; a save waits while the other
\* invocation holds the row
StartFound(k) ==
    /\ invocations[k].pc = "queried"
    /\ LockedByOther(k, invocations[k].images) = {}
    /\ invocations' = [invocations EXCEPT ![k].pc = "started"]
    /\ delayed' = [delayed EXCEPT ![k] = invocations[k].images]
    /\ UNCHANGED <<inspect_rows, pendingFrame>>

\* the function returns and the transaction commits
CommitFound(k) ==
    /\ invocations[k].pc = "started"
    /\ inspect_rows' =
          [a \in DescribableAmis |->
              IF a \in invocations[k].images
              THEN [status |-> PREPARING, recent |-> TRUE]
              ELSE inspect_rows[a]]
    /\ invocations' = [invocations EXCEPT ![k] = [pc |-> "idle",
                                                   images |-> {}]]
    /\ UNCHANGED <<delayed, pendingFrame>>

Query == \E k \in Invocations : QueryPending(k)

StartImages == \E k \in Invocations : StartFound(k)

Commit == \E k \in Invocations : CommitFound(k)

NextPending == SaveOldPendingImage \/ Query \/ StartImages \/ Commit

\* two invocations of inspect_pending_images run at any relative speed
SpecPending == Init /\ [][NextPending]_vars

(* ------------------------ ready_volumes queue -------------------------- *)

\* boto3 supports sending up to 10 items
SQS_SEND_BATCH_SIZE == 10

\* boto3 supports receiving of up to 10 items
SQS_RECEIVE_BATCH_SIZE == 10

\* settings.HOUNDIGRADE_AWS_VOLUME_BATCH_SIZE, as deployments may set it
VolumeBatchSizes == {2, SQS_SEND_BATCH_SIZE}

\* the first n elements of a sequence (all of it if it is shorter)
Take(seq, n) == SubSeq(seq, 1, Min(n, Len(seq)))

\* the messages of the queue that were not received yet, lowest first
RECURSIVE Visible(_, _, _)
Visible(queue, taken, m) ==
    IF m > MaxVolumes THEN <<>>
    ELSE (IF queue[m] > 0 /\ m \notin taken THEN <<m>> ELSE <<>>)
            \o Visible(queue, taken, m + 1)

\* the loop of read_messages_from_queue from iteration i on: sizes[i] is
\* the number of messages receive_message returns in iteration i, at most
\* MaxNumberOfMessages = max_batch_size and at most what is on the queue
RECURSIVE ReceiveLoop(_, _, _, _, _)
ReceiveLoop(queue, max_count, sizes, i, sqs_messages) ==
    IF i > max_count THEN sqs_messages
    ELSE
    LET max_batch_size == Min(SQS_RECEIVE_BATCH_SIZE, max_count)
        new_messages ==
            Take(Visible(queue, Range(sqs_messages), 1),
                 Min(sizes[i], max_batch_size))
        extended == sqs_messages \o new_messages
    IN  IF Len(new_messages) = 0 THEN sqs_messages
        ELSE IF Len(extended) >= max_count THEN extended
        ELSE ReceiveLoop(queue, max_count, sizes, i + 1, extended)

\* the queue without one copy of each of the messages
Deleted(queue, messages) ==
    [m \in 1..MaxVolumes |->
        IF m \in Range(messages) THEN queue[m] - 1 ELSE queue[m]]

\* read_messages_from_queue: the messages received are deleted one by one
\* and returned; a ClientError ends the deleting after `deletable` messages
read_messages_from_queue(queue, max_count, sizes, deletable) ==
    LET sqs_messages == ReceiveLoop(queue, max_count, sizes, 1, <<>>)
        messages == Take(sqs_messages, deletable)
    IN  [messages |-> messages, queue |-> Deleted(queue, messages)]

\* wrapped_messages[start_pos:end_pos] of add_messages_to_queue
Batch(messages, batch_num) ==
    LET start_pos == batch_num * SQS_SEND_BATCH_SIZE
        end_pos == start_pos + SQS_SEND_BATCH_SIZE - 1
    IN  SubSeq(messages, start_pos + 1, Min(end_pos, Len(messages)))

\* math.ceil(len(messages) / SQS_SEND_BATCH_SIZE)
BatchCount(messages) ==
    (Len(messages) + SQS_SEND_BATCH_SIZE - 1) \div SQS_SEND_BATCH_SIZE

\* add_messages_to_queue: one send_message_batch per batch
add_messages_to_queue(queue, messages) ==
    [m \in 1..MaxVolumes |->
        queue[m] + Cardinality(
           {<<b, k>> \in (0..(BatchCount(messages) - 1)) \X (1..Len(messages)) :
               /\ k <= Len(Batch(messages, b))
               /\ Batch(messages, b)[k] = m})]

\* enqueue_ready_volume: a message for a volume that is ready is sent
enqueue_ready_volume ==
    /\ \E m \in 1..MaxVolumes :
          /\ \A l \in m..MaxVolumes : ready_volumes[l] = 0
          /\ m > 1 => ready_volumes[m - 1] > 0
          /\ ready_volumes' = [ready_volumes EXCEPT ![m] = 1]
    /\ UNCHANGED <<last_read, clusterVars, queueFrame>>

\* a call of read_messages_from_queue(queue_name, max_count)
ReadMessages ==
    /\ \E max_count \in 1..MaxCount :
       \E sizes \in [1..max_count -> 0..max_count] :
       \E deletable \in {0, MaxVolumes} :
          LET read == read_messages_from_queue(ready_volumes, max_count,
                                               sizes, deletable)
          IN  /\ ready_volumes' = read.queue
              /\ last_read' = [max_count |-> max_count,
                               returned |-> Len(read.messages),
                               outcome |-> "read"]
    /\ UNCHANGED <<clusterVars, queueFrame>>

\* scale_up_inspection_cluster: nothing happens unless the cluster is
\* scaled down; the messages are read; if aws.scale_up raises ClientError
\* they are added to the queue again, otherwise run_inspection_cluster is
\* called with them
scale_up_inspection_cluster ==
    /\ \E scaled_down \in BOOLEAN, raises \in BOOLEAN,
          max_count \in VolumeBatchSizes :
          LET read == read_messages_from_queue(
                         ready_volumes, max_count,
                         [i \in 1..max_count |-> max_count], MaxVolumes)
              done(outcome) ==
                 last_read' = [max_count |-> max_count,
                               returned |-> Len(read.messages),
                               outcome |-> outcome]
          IN  IF ~scaled_down
              THEN /\ last_read' = [max_count |-> max_count, returned |-> 0,
                                    outcome |-> "not scaled down"]
                   /\ UNCHANGED ready_volumes
              ELSE IF Len(read.messages) = 0
              THEN /\ done("no messages")
                   /\ UNCHANGED ready_volumes
              ELSE IF raises
              THEN /\ done("ClientError")
                   /\ ready_volumes' =
                         add_messages_to_queue(read.queue, read.messages)
              ELSE /\ done("run")
                   /\ ready_volumes' = read.queue
    /\ UNCHANGED <<clusterVars, queueFrame>>

NextQueue ==
    enqueue_ready_volume \/ ReadMessages \/ scale_up_inspection_cluster

\* volumes become ready, the queue is read and the cluster is scaled up
SpecQueue == Init /\ [][NextQueue]_vars

(* ----------------------- run_inspection_cluster ----------------------- *)

\* the message lists run_inspection_cluster may be given: one message for
\* each of some images
Batches ==
    {messages \in UNION {[1..n -> AmiIds] : n \in 1..MaxBatch} :
        \A k, l \in 1..Len(messages) : messages[k] = messages[l] => k = l}

\* how attach_to_instance may end: it returns, or it raises a ClientError
\* that tells of a marketplace image, or another ClientError
AttachOutcomes == {"attached", "marketplace", "ClientError"}

\* the first loop: the image of every message is saved as inspecting
MarkInspecting(images, messages) ==
    [a \in AmiIds |->
        IF a \in Range(messages)
        THEN [images[a] EXCEPT !.status = INSPECTING]
        ELSE images[a]]

\* the except block of the attach loop for one message: ami is looked up
\* by the message's ami_id; image is read through aws_image, the variable
\* the first loop left bound to the image of the last message
AttachFailed(images, messages, message, outcome) ==
    LET ami == message
        aws_image == messages[Len(messages)]
    IN  IF outcome = "marketplace"
        THEN [[images EXCEPT ![ami].aws_marketplace_image = TRUE]
                EXCEPT ![aws_image].status = INSPECTED]
        ELSE [images EXCEPT ![aws_image].status = ERROR]

\* the attach loop from message index on
RECURSIVE AttachVolumes(_, _, _, _)
AttachVolumes(images, messages, attached, index) ==
    IF index > Len(messages) THEN images
    ELSE IF attached[index] = "attached"
    THEN AttachVolumes(images, messages, attached, index + 1)
    ELSE AttachVolumes(
            AttachFailed(images, messages, messages[index], attached[index]),
            messages, attached, index + 1)

\* run_inspection_cluster(messages): the images are saved as inspecting;
\* the task fails unless the cluster has its single container instance;
\* the volumes are attached one by one
run_inspection_cluster ==
    /\ \E messages \in Batches, num_instances \in 0..2 :
       \E attached \in [1..Len(messages) -> AttachOutcomes] :
          IF num_instances = 0
          THEN /\ cluster_images' = MarkInspecting(cluster_images, messages)
               /\ last_cluster' =
                     [messages |-> messages, attached |-> <<>>,
                      raised |-> "AwsECSInstanceNotReady"]
          ELSE IF num_instances > 1
          THEN /\ cluster_images' = MarkInspecting(cluster_images, messages)
               /\ last_cluster' =
                     [messages |-> messages, attached |-> <<>>,
                      raised |-> "AwsTooManyECSInstances"]
          ELSE /\ cluster_images' =
                     AttachVolumes(MarkInspecting(cluster_images, messages),
                                   messages, attached, 1)
               /\ last_cluster' =
                     [messages |-> messages, attached |-> attached,
                      raised |-> "none"]
    /\ UNCHANGED <<ready_volumes, last_read, queueFrame>>

\* start_image_inspection saves the image as preparing again
PrepareClusterImage ==
    /\ \E a \in AmiIds :
          /\ cluster_images[a].status # PREPARING
          /\ cluster_images' = [cluster_images EXCEPT ![a].status = PREPARING]
    /\ UNCHANGED <<last_cluster, ready_volumes, last_read, queueFrame>>

NextCluster == run_inspection_cluster \/ PrepareClusterImage

\* batches of ready volumes are handed to run_inspection_cluster
SpecCluster == Init /\ [][NextCluster]_vars

(* ---------------------------- type invariant -------------------------- *)

TypeOK ==
    /\ machine_image.status \in Statuses
    /\ machine_image.inspection_json
         \in {NoJson} \cup {json_dumps(v) : v \in Verdicts}
    /\ inspection_starts \in 0..MaxStarts
    /\ copy_tasks \in 0..MaxMessages
    /\ volumes \in 0..MaxMessages
    /\ copies \in 0..inspection_starts
    /\ Len(results) <= MaxMessages
    /\ \A i \in 1..Len(results) : results[i] \in Verdicts
    /\ step \in {"none", "start", "retry", "copy", "attach", "persist",
                 "reinspect"}
    /\ received \in {NoJson} \cup Verdicts
    /\ Len(events) <= MaxEvents
    /\ \A i \in 1..Len(events) : events[i].occurred_at \in 1..MaxTime
    /\ \A i \in 1..(Len(events) - 1) :
          events[i].occurred_at <= events[i + 1].occurred_at
    /\ \A i \in 1..Len(events) :
          /\ events[i].event_type \in EventTypes
          /\ events[i].image \in Images \cup {NoType}
          /\ events[i].instance_type \in InstanceTypes \cup {NoType}
    /\ \A i \in 1..Len(runs) :
          /\ runs[i].start_time \in 1..MaxTime
          /\ runs[i].end_time \in 1..MaxTime \cup {Null}
          /\ runs[i].end_time # Null => runs[i].start_time <= runs[i].end_time
          /\ runs[i].vcpu = DefinitionVcpu(runs[i].instance_type)
          /\ runs[i].memory = DefinitionMemory(runs[i].instance_type)
    /\ path \in {"none", "recalculate", "new_run", "ignored", "discarded"}
    /\ last \in Range(events) \cup CloudTrailEvents \cup {NoEvent}
    /\ (path = "discarded") = (last.occurred_at = AccountCreatedAt - 1)
    /\ (path = "none") = (last = NoEvent)
    /\ \A w \in Workers :
          /\ workers[w].pc \in {"idle", "filter", "act", "done"}
          /\ workers[w].branch \in {"none", "recalculate", "new_run", "ignored"}
          /\ workers[w].event \in Range(events) \cup {NoEvent}
    /\ Len(base.events) <= Len(events)
    /\ Len(sqs_queue) <= MaxQueue
    /\ \A k \in 1..Len(sqs_queue) :
          sqs_queue[k].message_id \in 1..(MaxQueue + 1)
    /\ \A k, l \in 1..Len(sqs_queue) :
          sqs_queue[k].message_id = sqs_queue[l].message_id => k = l
    /\ Range(successes) \cup Range(failures) \subseteq 1..(MaxQueue + 1)
    /\ \A a \in AmiIds :
          /\ aws_images[a].status \in {"none", PENDING, UNAVAILABLE}
          /\ aws_images[a].openshift_detected \in BOOLEAN
    /\ \A i \in InstanceIds :
          aws_instances[i] \in AmiIds \cup {NoAmi, "absent"}
    /\ \A ev \in aws_events :
          /\ ev.ec2_instance_id \in InstanceIds
          /\ ev.instance_type \in InstanceTypes \cup {NoType}
    /\ inspected_amis \subseteq AmiIds
    /\ named_image \in {NoNamedImage}
          \cup [name : ImageNames, owner : OwnerIds]
    /\ classified \in [read : BOOLEAN, is_marketplace : BOOLEAN,
                       is_cloud_access : BOOLEAN]
    /\ image_json \in {NoJson} \cup {json_dumps(v) : v \in Verdicts}
    /\ rhel_challenged \in BOOLEAN
    /\ rhel_read \in [rhel : BOOLEAN, rhel_detected : BOOLEAN]
    /\ ingest_pc \in {"idle", "discovered", "discovery_begun",
                      "discovery_described", "discovery_saved", "log_read",
                      "instances_loaded", "amis_loaded", "save_begun",
                      "save_written"}
    /\ transaction_open \in BOOLEAN
    /\ cloud_call \in {"none", "describe_instances", "describe_images",
                       "get_object"}
    /\ seen_amis \subseteq AmiIds
    /\ stored_amis \subseteq AmiIds
    /\ inspect_rows \in
          [DescribableAmis ->
              [status : {"none", PENDING, PREPARING}, recent : BOOLEAN]]
    /\ invocations \in
          [Invocations -> [pc : {"idle", "queried", "started"},
                           images : SUBSET DescribableAmis]]
    /\ delayed \in [Invocations -> SUBSET DescribableAmis]
    /\ ready_volumes \in [1..MaxVolumes -> 0..2]
    /\ \A a \in AmiIds :
          /\ cluster_images[a].status \in Statuses
          /\ cluster_images[a].aws_marketplace_image \in BOOLEAN
    /\ last_cluster.messages \in Batches \cup {<<>>}
    /\ last_cluster.raised \in
          {"none", "AwsECSInstanceNotReady", "AwsTooManyECSInstances"}
    /\ Len(last_cluster.attached) \in {0, Len(last_cluster.messages)}
    /\ last_read \in
          [max_count : 0..(MaxCount + SQS_SEND_BATCH_SIZE),
           returned : 0..MaxVolumes,
           outcome : {"none", "read", "not scaled down", "no messages",
                      "ClientError", "run"}]
    /\ is_enabled \in [AwsAccountIds -> BOOLEAN]
    /\ sources_status \in
          [AwsAccountIds -> {"none", "available", "unavailable"}]
    /\ last_notify \in {NoNotify} \cup
          [account : AwsAccountIds, enable : BOOLEAN, response : Responses,
           outcome : {"updated", "info", "ConnectionError",
                      "SourcesAPINotOkStatus"},
           warned : BOOLEAN, failed : BOOLEAN]
    /\ cloud_accounts \subseteq AwsAccountIds
    /\ \A i \in InstanceIds :
          /\ account_instances[i].cloud_account \in AwsAccountIds \cup {"none"}
          /\ account_instances[i].machine_image \in {InstanceImage, NoAmi}
          /\ event_rows[i] \in 0..MaxRows
          /\ run_rows[i] \in 0..MaxRows
    /\ image_rows \subseteq {InstanceImage}
    /\ ImagesOf(InstanceIds) \subseteq image_rows
    /\ last_delete.account \in AwsAccountIds \cup {"none"}
    /\ last_delete.error \in CloudTrailErrors
    /\ last_delete.raised \in {"none", "CloudTrailCannotStopLogging"}
    /\ last_delete.rows \in 0..(2 * MaxRows * Cardinality(InstanceIds))
    /\ last_delete.images \subseteq {InstanceImage}


(* --------------------------- run invariants --------------------------- *)

\* the end of a run's half-open interval; an open run extends to infinity
EndOf(r) == IF r.end_time = Null THEN MaxTime + 1 ELSE r.end_time

\* two runs whose half-open intervals share an instant
Overlap(r1, r2) ==
    (IF r1.start_time > r2.start_time THEN r1.start_time ELSE r2.start_time)
        < Min(EndOf(r1), EndOf(r2))

\* positions of the open runs
OpenRuns == {i \in 1..Len(runs) : runs[i].end_time = Null}

Count(s, r) == Cardinality({i \in 1..Len(s) : s[i] = r})

\* the same stored rows, whatever their database ids
SameRuns(a, b) ==
    /\ Len(a) = Len(b)
    /\ \A r \in Range(a) \cup Range(b) : Count(a, r) = Count(b, r)

\* the runs stored after the events seq[i..] arrive in that order, one at a
\* time, each followed by process_instance_event
RECURSIVE RunsAfterArrivals(_, _, _, _)
RunsAfterArrivals(seq, i, evs, rs) ==
    IF i > Len(seq) THEN rs
    ELSE LET evs2 == InsertEvent(evs, seq[i])
         IN  RunsAfterArrivals(seq, i + 1, evs2,
                               process_instance_event(evs2, rs, seq[i]))

\* C1: the runs stored after the events arrived in any order equal the runs
\* stored when the same events arrive in occurred_at order (hence the runs
\* are the same for every arrival order).
OrderIndependence ==
    SameRuns(runs, RunsAfterArrivals(events, 1, <<>>, <<>>))

(* ------------------------------ idempotence --------------------------- *)

\* C4: running the reconciler again for a stored event, with no change to
\* the event history, leaves the stored runs identical.
IdempotentReconciliation ==
    [][Reprocess => SameRuns(runs', runs)]_vars


(* ------------------- single arrivals: rules 2, 3, 4 ------------------- *)

\* the step saved a new event of the given type, which is last', and ran
\* process_instance_event for it
Saved(type) == Len(events') = Len(events) + 1 /\ last'.event_type = type

\* the half-open intervals of the runs, in database id order
Intervals(rs) == [i \in 1..Len(rs) |-> <<rs[i].start_time, rs[i].end_time>>]

\* a stored event of one of the given types occurred within [a, b]
StoredBetween(evs, types, a, b) ==
    \E i \in 1..Len(evs) :
        /\ evs[i].event_type \in types
        /\ a <= evs[i].occurred_at
        /\ evs[i].occurred_at <= b

UpToDate ==
    LET n == normalize_runs(events)
    IN  ~n.failed /\ SameRuns(Intervals(n.runs), Intervals(runs))

PowerOns(evs) == {i \in 1..Len(evs) : evs[i].event_type = POWER_ON}

\* an event of one of the given types is stored between positions p and q
\* of the history (ordered by occurred_at, ties by insertion)
BetweenInHistory(evs, types, p, q) ==
    \E k \in 1..Len(evs) :
        /\ evs[k].event_type \in types
        /\ (p < k /\ k < q) \/ (q < k /\ k < p)

\* the earliest power_on of the chain the power_on at position p belongs to:
\* the power_ons before it with none of the breaking event types between
ChainStart(evs, breaking, p) ==
    LET chain == {evs[j].occurred_at : j \in {i \in PowerOns(evs) :
                     i <= p /\ ~BetweenInHistory(evs, breaking, i, p)}}
    IN  CHOOSE u \in chain : \A v \in chain : u <= v

\* two power_ons with no breaking event between them lie in exactly one
\* run: one run starts at the earliest power_on of their chain, it lasts
\* to the later of the two at least, and no run starts after it up to there
OneRunPerChain(evs, rs, breaking) ==
    \A p, q \in PowerOns(evs) :
        (p < q /\ ~BetweenInHistory(evs, breaking, p, q))
        => LET first == ChainStart(evs, breaking, p)
               chain == {i \in 1..Len(rs) : rs[i].start_time = first}
           IN  /\ Cardinality(chain) = 1
               /\ \A i \in chain : evs[q].occurred_at <= EndOf(rs[i])
               /\ \A i \in 1..Len(rs) :
                     ~(first < rs[i].start_time
                       /\ rs[i].start_time <= evs[q].occurred_at)

\* the position at which InsertEvent stores e
InsertedAt(evs, e) ==
    Cardinality({i \in 1..Len(evs) : evs[i].occurred_at <= e.occurred_at}) + 1

\* a power_on arriving inside the open run, no breaking event between the
\* two, leaves the run intervals unchanged; one arriving before the open
\* run's start, no breaking event between the two, moves the start to it
AbsorbedByOpenRun(breaking) ==
    \A o \in OpenRuns :
      \A s \in {i \in PowerOns(events') :
                   /\ i # InsertedAt(events, last')
                   /\ events'[i].occurred_at = runs[o].start_time} :
        (/\ Saved(POWER_ON)
         /\ ~BetweenInHistory(events', breaking, s,
                              InsertedAt(events, last')))
        => IF last'.occurred_at >= runs[o].start_time
           THEN Intervals(runs') = Intervals(runs)
           ELSE /\ Count(Intervals(runs'), <<last'.occurred_at, Null>>) = 1
                /\ Count(Intervals(runs'), <<runs[o].start_time, Null>>) = 0
                /\ Len(runs') = Len(runs)

\* C5: power_ons with no power_off between them in time lie in exactly one
\* run, which starts at the earliest of them; a later power_on inside the
\* open run leaves the run unchanged, an earlier one moves its start back.
DuplicateStart ==
    [][/\ OneRunPerChain(events', runs', {POWER_OFF})
       /\ AbsorbedByOpenRun({POWER_OFF})]_vars

(* ---------------------------- orphan power_off ------------------------ *)

\* every stored run is closed and has ended by time t
AllRunsEndedBy(t) ==
    \A i \in 1..Len(runs) : runs[i].end_time # Null /\ runs[i].end_time <= t

\* C7: a power_off that occurs at or after the end of every stored run (all
\* runs closed, or no run at all) creates no run, changes no run, and does
\* not invoke the recompute.
OrphanPowerOff ==
    [][(Saved(POWER_OFF) /\ AllRunsEndedBy(last'.occurred_at))
       => runs' = runs /\ path' # "recalculate"]_vars

\* a power_off was handled after every run had ended, and nothing was done
OrphanIgnored ==
    /\ last.event_type = POWER_OFF
    /\ path = "ignored"
    /\ runs # <<>>
    /\ AllRunsEndedBy(last.occurred_at)

\* positions of the stored power_offs that are later than t1, have no
\* power_on before them, and are the earliest stored event from t1 on
OrphanOffsAfter(t1) ==
    {k \in 1..Len(events) :
        /\ events[k].event_type = POWER_OFF
        /\ events[k].occurred_at > t1
        /\ \A j \in 1..Len(events) :
              /\ j < k => events[j].event_type = POWER_OFF
              /\ events[j].occurred_at >= t1 => j >= k}

\* C8: a power_off at t2 stored with no preceding power_on is kept, and
\* when a power_on at t1 < t2 arrives afterwards the runs contain the closed
\* run [t1, t2) and no open run starting at t1.
RetainedOrphanPowerOff ==
    [][\A k \in OrphanOffsAfter(last'.occurred_at) :
         Saved(POWER_ON)
         => /\ events[k] \in Range(events')
            /\ Count(Intervals(runs'),
                     <<last'.occurred_at, events[k].occurred_at>>) = 1
            /\ Count(Intervals(runs'), <<last'.occurred_at, Null>>) = 0]_vars

(* ------------------------------ fast path ----------------------------- *)

\* C9: a power_on that occurs at or after the end of every stored run, all
\* of them closed, inserts exactly one open run starting at its occurred_at,
\* leaves every stored run unchanged, and does not invoke the recompute.
NewRunFastPath ==
    [][(Saved(POWER_ON) /\ AllRunsEndedBy(last'.occurred_at))
       => /\ runs' = Append(runs, Run(last'.occurred_at, Null,
                                      last'.instance_type, last'.image))
          /\ path' = "new_run"]_vars

\* a power_on opened a new run behind a closed one without a recompute
NewOpenRun ==
    /\ last.event_type = POWER_ON
    /\ path = "new_run"
    /\ Len(runs) >= 2
    /\ runs[Len(runs)].start_time = last.occurred_at
    /\ runs[Len(runs)].end_time = Null
    /\ \A i \in 1..(Len(runs) - 1) :
          runs[i].end_time # Null /\ runs[i].end_time <= last.occurred_at

\* a power_on arrives strictly after the start of every stored run while
\* the instance has an open run
LateOnWithOpenRun ==
    /\ Saved(POWER_ON)
    /\ OpenRuns # {}
    /\ \A i \in 1..Len(runs) : runs[i].start_time < last'.occurred_at

PreAccountCutoff ==
    [][/\ last'.occurred_at < AccountCreatedAt
          => events' = events /\ runs' = runs
       /\ last'.occurred_at >= AccountCreatedAt => last' \in Range(events')
       /\ \A i \in 1..Len(events') :
             events'[i].occurred_at >= AccountCreatedAt
       /\ \A i \in 1..Len(runs') :
             /\ runs'[i].start_time >= AccountCreatedAt
             /\ runs'[i].end_time # Null
                => runs'[i].end_time >= AccountCreatedAt]_vars

\* a delayed power_on from before the account was created was dropped while
\* the instance had runs, none of which starts there
DelayedEventDropped ==
    /\ path = "discarded"
    /\ last.event_type = POWER_ON
    /\ last.occurred_at < AccountCreatedAt
    /\ last \notin Range(events)
    /\ runs # <<>>
    /\ \A i \in 1..Len(runs) : runs[i].start_time > last.occurred_at

(* ----------------------- per-instance serialization ------------------- *)

\* the runs after process_instance_event ran for e1 and then for e2, one
\* after the other, starting from the runs rs; evs holds both events
OneAfterTheOther(evs, rs, e1, e2) ==
    process_instance_event(evs, process_instance_event(evs, rs, e1), e2)

\* the runs after e1 was saved and processed and then e2 was saved and
\* processed, starting from the events evs and the runs rs
SavedOneAfterTheOther(evs, rs, e1, e2) ==
    RunsAfterArrivals(<<e1, e2>>, 1, evs, rs)

\* both concurrent tasks have finished
TasksDone == \A w \in Workers : workers[w].pc = "done"

\* C12: when two workers have processed two events of the instance
\* concurrently, the stored runs are those of processing the two events one
\* after the other in some order, and there is at most one open run.
Serialized ==
    TasksDone
    => LET e1 == workers["w1"].event
           e2 == workers["w2"].event
       IN  /\ \/ SameRuns(runs, OneAfterTheOther(events, base.runs, e1, e2))
              \/ SameRuns(runs, OneAfterTheOther(events, base.runs, e2, e1))
              \/ SameRuns(runs, SavedOneAfterTheOther(base.events, base.runs,
                                                     e1, e2))
              \/ SameRuns(runs, SavedOneAfterTheOther(base.events, base.runs,
                                                     e2, e1))
           /\ Cardinality(OpenRuns) <= 1

(* ------------------------ image change inside a run ------------------ *)

\* event e names an image and falls inside a stored open run of another
\* image
ImageChangedInRun(rs, e) ==
    /\ e.image # NoType
    /\ \E i \in 1..Len(rs) :
          /\ rs[i].end_time = Null
          /\ rs[i].start_time <= e.occurred_at
          /\ rs[i].image # e.image

\* the recompute for event e fails on the events it loads
RecomputeFails(evs, rs, e) ==
    normalize_runs(LoadEvents(evs, Watermark(rs, e.occurred_at))).failed

\* an event naming another image than the open run it falls in, arriving
\* while the stored runs are the runs of the stored events: the
\* reconciliation for it fails and the stored runs are left as they were
ImageChangeRejectedUpToDate ==
    [][(/\ Len(events') = Len(events) + 1
        /\ UpToDate
        /\ ImageChangedInRun(runs, last'))
       => /\ path' = "recalculate"
          /\ RecomputeFails(events', runs, last')
          /\ runs' = runs]_vars

\* C13: when an event that falls inside an open run names another image
\* than the run's, the reconciliation for it fails and the stored runs are
\* left exactly as they were.
ImageChangeRejected ==
    [][(/\ Len(events') = Len(events) + 1
        /\ ImageChangedInRun(runs, last'))
       => /\ path' = "recalculate"
          /\ RecomputeFails(events', runs, last')
          /\ runs' = runs]_vars

\* the history on (image A), on (image B), off: the reconciliation for the
\* power_off has failed and the open run of image A is all that is stored
ImageChangeKeptRuns ==
    /\ Len(events) = 3
    /\ events[1].event_type = POWER_ON
    /\ events[2].event_type = POWER_ON
    /\ events[1].image # events[2].image
    /\ events[3].event_type = POWER_OFF
    /\ last = events[3]
    /\ path = "recalculate"
    /\ runs = <<Run(events[1].occurred_at, Null, events[1].instance_type,
                    events[1].image)>>

(* ---------------------- attribute_change inside a run ---------------- *)

\* the stored runs that began before t and had not ended at t, of another
\* instance type than ty
RunsRetypedAt(rs, t, ty) ==
    {i \in 1..Len(rs) :
        /\ rs[i].start_time < t
        /\ rs[i].end_time = Null \/ t < rs[i].end_time
        /\ rs[i].instance_type \notin {NoType, ty}}

\* an attribute_change that carries another instance type is saved at a
\* time strictly inside a stored run
TypeChangedInRun ==
    /\ Saved(ATTRIBUTE_CHANGE)
    /\ RunsRetypedAt(runs, last'.occurred_at, last'.instance_type) # {}

TypedBefore(evs, k) == {j \in 1..(k - 1) : evs[j].instance_type # NoType}

\* the instance type of the most recent event before position k that
\* carries one
InheritedType(evs, k) ==
    evs[CHOOSE j \in TypedBefore(evs, k) :
            \A i \in TypedBefore(evs, k) : i <= j].instance_type

\* C15: a run started by a power_on that carries no instance type has the
\* instance type of the most recent earlier event that carries one.
TypeInheritance ==
    \A r \in 1..Len(runs) : \A k \in 1..Len(events) :
        (/\ events[k].event_type = POWER_ON
         /\ events[k].occurred_at = runs[r].start_time
         /\ events[k].instance_type = NoType
         /\ TypedBefore(events, k) # {})
        => runs[r].instance_type = InheritedType(events, k)

\* typed power_on, power_off, untyped power_on: two runs are stored and
\* the second one begins at the untyped power_on
RunOfUntypedPowerOn ==
    /\ Len(events) = 3
    /\ events[1].event_type = POWER_ON /\ events[1].instance_type # NoType
    /\ events[2].event_type = POWER_OFF
    /\ events[3].event_type = POWER_ON /\ events[3].instance_type = NoType
    /\ Len(runs) = 2
    /\ runs[2].start_time = events[3].occurred_at

(* ------------------------- inspection status ------------------------- *)

\* the statuses that end an inspection
Terminal == {INSPECTED, ERROR}

\* C16: once the image's status is inspected or error, no operation
\* changes it.
StatusMonotonicity ==
    [][machine_image.status \in Terminal
         => machine_image'.status = machine_image.status]_vars

\* how far along pending, preparing, inspecting, (inspected | error) a
\* status is
Rank(status) ==
    CASE status = PENDING -> 0
      [] status = PREPARING -> 1
      [] status = INSPECTING -> 2
      [] OTHER -> 3

\* C17: the image's status only moves forward along pending, preparing,
\* inspecting, (inspected | error): no operation takes it to an earlier
\* status.
ForwardOnlyStatus ==
    [][Rank(machine_image'.status) >= Rank(machine_image.status)]_vars

\* the image is classified without inspection: as a marketplace image, a
\* cloud access image or an image tagged as RHEL
PreClassified(img) ==
    img.is_marketplace \/ img.is_cloud_access \/ img.rhel_detected_by_tag

VerdictIngestion ==
    [][step' = "persist" /\ Len(results') < Len(results)
       => /\ json_loads(machine_image'.inspection_json) = Head(results)
          /\ machine_image'.inspection_json = json_dumps(received')
          /\ received' = Head(results)
          /\ machine_image'.status = INSPECTED]_vars

\* an inspection result that found enabled RHEL repos was persisted: the
\* image is inspected and its inspection_json is the text of that result
VerdictStored ==
    /\ step = "persist"
    /\ received # NoJson
    /\ received["rhel_enabled_repos_found"]
    /\ machine_image.status = INSPECTED
    /\ json_loads(machine_image.inspection_json) = received

(* ------------------------- CloudTrail log analysis -------------------- *)

\* every event of the message is of an account that is enrolled
FromEnrolled(m) ==
    /\ \A k \in 1..Len(m.instance_events) :
          m.instance_events[k].aws_account_id \in AwsCloudAccounts
    /\ \A k \in 1..Len(m.ami_tag_events) :
          m.ami_tag_events[k].aws_account_id \in AwsCloudAccounts

\* the AMI ids the events of the message refer to: the ids they carry and,
\* for an instance event that carries none, the image of its instance
ReferencedAmiIds(m) ==
    EventAmiIds(m.instance_events) \cup EventAmiIds(m.ami_tag_events)
       \cup {DescribedImageId(m.instance_events[k].ec2_instance_id) :
                k \in {j \in 1..Len(m.instance_events) :
                          m.instance_events[j].ec2_ami_id = NoAmi}}

\* the message with this id is on the queue after the step
OnQueueAfter(id) ==
    \E l \in 1..Len(sqs_queue') : sqs_queue'[l].message_id = id

\* C21: when analyze_log processes a well-formed message of an enrolled
\* account that refers to an AMI that has no row yet and that the cloud
\* cannot describe, the pass leaves a row with status unavailable under
\* that id, starts no inspection for it, and reports the message as a
\* success and deletes it from the queue.
UnavailableStub ==
    [][analyze_log =>
         \A k \in 1..Len(sqs_queue) :
            \A a \in ReferencedAmiIds(sqs_queue[k]) :
               (/\ sqs_queue[k].valid_json
                /\ FromEnrolled(sqs_queue[k])
                /\ aws_images[a] = NoRow
                /\ a \notin DescribableAmis)
               => /\ aws_images'[a].status = UNAVAILABLE
                  /\ a \notin inspected_amis'
                  /\ sqs_queue[k].message_id \in Range(successes')
                  /\ ~OnQueueAfter(sqs_queue[k].message_id)]_vars

\* a stub row is stored for an AMI the cloud could not describe, after a
\* pass that succeeded on a message, and no inspection was started for it
StubStored ==
    \E a \in AmiIds \ DescribableAmis :
       /\ aws_images[a].status = UNAVAILABLE
       /\ a \notin inspected_amis
       /\ successes # <<>>

(* --------------------------- latest tag event ------------------------- *)

\* event k is a latest tag event of its AMI in the batch
LatestTagEvent(tes, k) ==
    \A l \in 1..Len(tes) :
       tes[l].ec2_ami_id = tes[k].ec2_ami_id =>
          tes[l].occurred_at <= tes[k].occurred_at

\* the events of every AMI are neighbours in the batch
Contiguous(tes) ==
    \A i, j \in 1..Len(tes) :
       (i < j /\ tes[i].ec2_ami_id = tes[j].ec2_ami_id) =>
          \A k \in i..j : tes[k].ec2_ami_id = tes[i].ec2_ami_id

\* after the pass the OpenShift flag of every tagged AMI of the batch is
\* the exists of its latest event, when its latest events agree
LatestWins(tes) ==
    \A k \in 1..Len(tes) :
       (/\ LatestTagEvent(tes, k)
        /\ \A l \in 1..Len(tes) :
              (LatestTagEvent(tes, l)
                 /\ tes[l].ec2_ami_id = tes[k].ec2_ami_id)
              => tes[l].exists = tes[k].exists)
       => aws_images'[tes[k].ec2_ami_id].openshift_detected = tes[k].exists

\* C22: when analyze_log processes a log with several tag events, every
\* image of the log ends with the tag state of the event of that image with
\* the greatest occurred_at, in whatever order the log lists the events.
LatestTagWins ==
    [][analyze_log =>
         \A m \in 1..Len(sqs_queue) :
            LatestWins(sqs_queue[m].ami_tag_events)]_vars

\* the same for logs that list the events of each image next to each other
LatestTagWinsContiguous ==
    [][analyze_log =>
         \A m \in 1..Len(sqs_queue) :
            Contiguous(sqs_queue[m].ami_tag_events)
               => LatestWins(sqs_queue[m].ami_tag_events)]_vars

(* ------------------------- messages of one pass ----------------------- *)

\* the result of a pass of analyze_log over the given messages
PassOver(messages) ==
    analyze_messages([db |-> Database, successes |-> <<>>,
                      failures |-> <<>>, queue |-> <<>>], messages)

\* the step stores what a pass over the given messages stores
StoresAsPassOver(messages) ==
    /\ aws_images' = PassOver(messages).db.images
    /\ aws_instances' = PassOver(messages).db.instances
    /\ aws_events' = PassOver(messages).db.events
    /\ inspected_amis' = PassOver(messages).db.inspected

\* the content of the log object of the message is JSON
ValidJson(m) == m.valid_json

\* C23: a message whose log object is not valid JSON stays on the queue
\* after the analyze_log pass, is among the failures and not among the
\* successes of the pass, and the pass stores exactly what it would store
\* without the corrupt messages.
CorruptPayload ==
    [][analyze_log =>
         /\ \A k \in 1..Len(sqs_queue) :
               ~sqs_queue[k].valid_json =>
                  /\ OnQueueAfter(sqs_queue[k].message_id)
                  /\ sqs_queue[k].message_id \in Range(failures')
                  /\ sqs_queue[k].message_id \notin Range(successes')
         /\ StoresAsPassOver(SelectSeq(sqs_queue, ValidJson))]_vars

\* a corrupt message is on the queue after a pass reported it as a failure
CorruptLeftOnQueue ==
    \E k \in 1..Len(sqs_queue) :
       /\ ~sqs_queue[k].valid_json
       /\ sqs_queue[k].message_id \in Range(failures)

\* C24: in one analyze_log pass every message is a success, a failure or
\* dropped; the successes are deleted from the queue, the failures stay on
\* it; a corrupt message fails and a well-formed message of an enrolled
\* account succeeds and has its instance stored, wherever it stands in the
\* pass, so a failure does not keep the other messages from being processed.
PassPartition ==
    [][analyze_log =>
         \A k \in 1..Len(sqs_queue) :
            LET m == sqs_queue[k]
                id == sqs_queue[k].message_id
            IN  /\ id \in Range(successes') => ~OnQueueAfter(id)
                /\ id \in Range(failures') => OnQueueAfter(id)
                /\ ~(id \in Range(successes') /\ id \in Range(failures'))
                /\ OnQueueAfter(id) => id \in Range(failures')
                /\ ~m.valid_json => id \in Range(failures')
                /\ (m.valid_json /\ FromEnrolled(m)) =>
                      /\ id \in Range(successes')
                      /\ \A j \in 1..Len(m.instance_events) :
                            aws_instances'[m.instance_events[j]
                                              .ec2_instance_id] # "absent"]_vars

\* a pass ended with a success and a failure
MixedPass == successes # <<>> /\ failures # <<>>

(* ----------------------------- unknown account ------------------------ *)

\* an event of the message is of an account that is not enrolled
FromUnknownAccount(m) == m.valid_json /\ ~FromEnrolled(m)

\* the message is not of an account that is not enrolled
NotFromUnknownAccount(m) == ~FromUnknownAccount(m)

\* C25: a message of an account that is not enrolled is off the queue
\* after the analyze_log pass and in neither list, and the pass stores and
\* starts exactly what it would without such messages.
UnknownAccountDropped ==
    [][analyze_log =>
         /\ \A k \in 1..Len(sqs_queue) :
               FromUnknownAccount(sqs_queue[k]) =>
                  /\ ~OnQueueAfter(sqs_queue[k].message_id)
                  /\ sqs_queue[k].message_id \notin Range(successes')
                  /\ sqs_queue[k].message_id \notin Range(failures')
         /\ StoresAsPassOver(SelectSeq(sqs_queue, NotFromUnknownAccount))]_vars

\* the message makes a load step look its account up: it has an instance
\* to describe or names an AMI no row is stored for
NeedsDescribe(m) ==
    \/ \E j \in 1..Len(m.instance_events) :
          m.instance_events[j].ec2_instance_id
             \notin DefinedInstanceIds(Database, m.instance_events)
    \/ \E a \in EventAmiIds(m.instance_events)
                 \cup EventAmiIds(m.ami_tag_events) : aws_images[a] = NoRow

\* the same for a pass over one message that needs a describe
UnknownAccountDroppedOnDescribe ==
    [][(analyze_log /\ Len(sqs_queue) = 1 /\ NeedsDescribe(sqs_queue[1])) =>
         /\ FromUnknownAccount(sqs_queue[1]) =>
               /\ sqs_queue' = <<>>
               /\ successes' = <<>>
               /\ failures' = <<>>
         /\ StoresAsPassOver(SelectSeq(sqs_queue, NotFromUnknownAccount))]_vars

\* a message of an unknown account is on the queue after a pass reported it
\* as a failure
UnknownAccountLeftOnQueue ==
    \E k \in 1..Len(sqs_queue) :
       /\ FromUnknownAccount(sqs_queue[k])
       /\ sqs_queue[k].message_id \in Range(failures)

(* ---------------------------- account deletion ------------------------ *)

\* the step is a CloudAccount.delete call: it wrote its record or removed
\* an account
DeleteCall ==
    \/ last_delete' # last_delete
    \/ ~(cloud_accounts \subseteq cloud_accounts')

\* C26: a CloudAccount.delete call whose disable_cloudtrail fails with
\* AccessDenied, AccessDeniedException or TrailNotFoundException raises
\* nothing and removes the account row.
DeletionProceedsOnWarning ==
    [][(DeleteCall
          /\ last_delete'.error \in {"AccessDenied", "AccessDeniedException",
                                     "TrailNotFoundException"})
         => /\ last_delete'.raised = "none"
            /\ last_delete'.account \in cloud_accounts
            /\ last_delete'.account \notin cloud_accounts']_vars

\* an account was deleted although its trail could not be disabled
DeletedDespiteWarning ==
    /\ last_delete.error \in {"AccessDenied", "AccessDeniedException",
                              "TrailNotFoundException"}
    /\ last_delete.raised = "none"
    /\ last_delete.account \notin cloud_accounts

SharedImageKept ==
    /\ last_delete.raised = "none"
    /\ last_delete.rows >= 1
    /\ last_delete.images = {}
    /\ \E i \in InstanceIds : account_instances[i].machine_image # NoAmi

(* --------------------------- image classification --------------------- *)

\* two characters are the same letter, whatever their case
SameLetter(c1, c2) ==
    \/ c1 = c2
    \/ c1 \in DOMAIN LowerOf /\ LowerOf[c1] = c2
    \/ c2 \in DOMAIN LowerOf /\ LowerOf[c2] = c1

\* two names differ at most in the case of their letters
SameButCase(s, t) ==
    /\ Len(s) = Len(t)
    /\ \A k \in 1..Len(s) : SameLetter(s[k], t[k])

\* the name contains the token in some casing
CarriesToken(token, name) ==
    \E i \in 0..(Len(name) - Len(token)) :
       SameButCase(SubSeq(name, i + 1, i + Len(token)), token)

\* C30: whatever image is stored, every name that differs from its name
\* only in letter case gives the same is_marketplace and is_cloud_access;
\* each is true only for an owner in RHEL_IMAGES_AWS_ACCOUNTS, so an image
\* whose name carries a token and whose owner is outside the set is
\* neither; and the values read from a stored image are these.
ClassificationLaws ==
    named_image # NoNamedImage =>
       /\ \A name \in ImageNames :
             SameButCase(name, named_image.name) =>
                LET other == [named_image EXCEPT !.name = name]
                IN  /\ is_marketplace(other) = is_marketplace(named_image)
                    /\ is_cloud_access(other) = is_cloud_access(named_image)
       /\ named_image.owner \notin {"owner-rh"} =>
             ~is_marketplace(named_image) /\ ~is_cloud_access(named_image)
       /\ (named_image.owner \in {"owner-rh"}
             /\ CarriesToken(<<"-", "h", "o", "u", "r", "l", "y", "2">>,
                             named_image.name))
            => is_marketplace(named_image)
       /\ (named_image.owner \in {"owner-rh"}
             /\ CarriesToken(<<"-", "A", "c", "c", "e", "s", "s", "2">>,
                             named_image.name))
            => is_cloud_access(named_image)
       /\ classified.read =>
             /\ classified.is_marketplace
                   = is_marketplace([named_image EXCEPT
                                        !.name = lower(named_image.name)])
             /\ classified.is_cloud_access
                   = is_cloud_access([named_image EXCEPT
                                         !.name = upper(named_image.name)])

\* an image whose name was changed to upper case was read as a marketplace
\* image
UpperCaseMarketplace ==
    /\ classified.read
    /\ classified.is_marketplace = TRUE
    /\ named_image.name = upper(named_image.name)
    /\ named_image.name # lower(named_image.name)

\* an image whose name carries a token and whose owner is outside the set
\* was read as neither
TokenWithoutOwner ==
    /\ classified = [read |-> TRUE, is_marketplace |-> FALSE,
                     is_cloud_access |-> FALSE]
    /\ named_image.owner = "owner-other"
    /\ CarriesToken(<<"-", "A", "c", "c", "e", "s", "s", "2">>,
                    named_image.name)

\* C31: whenever the properties of a stored image were read and
\* is_marketplace was true, rhel was false
MarketplaceIsNotRhel ==
    (classified.read /\ classified.is_marketplace) => ~rhel_read.rhel

\* a marketplace image read as it was generated: not challenged, without
\* inspection results, not RHEL
MarketplaceReadNotRhel ==
    /\ classified.read
    /\ classified.is_marketplace
    /\ ~rhel_challenged
    /\ image_json = NoJson
    /\ ~rhel_read.rhel

DisabledWhileUnreachable ==
    /\ last_notify.account = "acct-1"
    /\ ~last_notify.enable
    /\ ~last_notify.response.reached
    /\ ~is_enabled["acct-1"]

\* C33: no AWS API call is made while a database transaction of an ingest
\* task is open
NoCloudCallInTransaction == ~(transaction_open /\ cloud_call # "none")

\* the same, for the processing of CloudTrail messages alone
NoCloudCallInCloudTrailTransaction ==
    ingest_pc \in {"save_begun", "save_written"} =>
       (transaction_open /\ cloud_call = "none")

\* a CloudTrail message that names new images is being saved
CloudTrailTransactionOpen ==
    /\ ingest_pc = "save_written"
    /\ transaction_open
    /\ stored_amis # {}

\* the account every event of the message is from is disabled
FromDisabledAccount(message) ==
    /\ message.valid_json
    /\ \A k \in 1..Len(message.instance_events) :
          ~is_enabled[message.instance_events[k].aws_account_id]
    /\ \A k \in 1..Len(message.ami_tag_events) :
          ~is_enabled[message.ami_tag_events[k].aws_account_id]

\* C34: a pass of analyze_log over messages that are all from disabled
\* accounts creates no instance, no instance event and no image
DisabledStopsIngest ==
    [][(analyze_log
          /\ \A k \in 1..Len(sqs_queue) : FromDisabledAccount(sqs_queue[k]))
        => /\ aws_instances' = aws_instances
           /\ aws_events' = aws_events
           /\ aws_images' = aws_images]_vars

\* C35: no image has copy_ami_snapshot enqueued by both invocations of
\* inspect_pending_images (one that runs after the other has committed
\* finds the image recently updated and does not start it)
NoDoubleStart == delayed[1] \cap delayed[2] = {}

\* an invocation that ran after the other had committed started nothing
SecondFindsNothing ==
    /\ delayed[1] # {}
    /\ delayed[2] = {}
    /\ invocations[2].pc = "started"
    /\ invocations[1].pc = "idle"

\* C36: a read with max_count returns at most max_count messages and
\* removes no more than that from the queue
ReadAtMostMaxCount ==
    [][ReadMessages =>
          /\ last_read'.returned <= last_read'.max_count
          /\ Cardinality({m \in 1..MaxVolumes :
                             ready_volumes'[m] < ready_volumes[m]})
                <= last_read'.max_count]_vars

\* C37: when scale_up_inspection_cluster ends with the ClientError of
\* aws.scale_up, every message is on the queue as often as before the run
RequeuedExactlyOnce ==
    [][(scale_up_inspection_cluster /\ last_read'.outcome = "ClientError")
        => ready_volumes' = ready_volumes]_vars

\* the same for runs that read fewer than SQS_SEND_BATCH_SIZE messages
RequeuedExactlyOnceBelowBatch ==
    [][(scale_up_inspection_cluster
          /\ last_read'.outcome = "ClientError"
          /\ last_read'.returned < 10)
        => ready_volumes' = ready_volumes]_vars

\* the indexes of the messages whose volume the last run_inspection_cluster
\* call could not attach
FailedMessages(call) ==
    {k \in 1..Len(call.attached) : call.attached[k] # "attached"}

\* C38: when run_inspection_cluster could not attach the volume of exactly
\* one message, the image of that message is error (inspected if the error
\* told of a marketplace image), every other image of the batch is
\* inspecting, and the images outside the batch keep their status
OnlyFailedImageChanges ==
    [][(run_inspection_cluster
          /\ Cardinality(FailedMessages(last_cluster')) = 1)
        => LET call == last_cluster'
           IN  /\ \A k \in 1..Len(call.messages) :
                     cluster_images'[call.messages[k]].status =
                        CASE call.attached[k] = "attached" -> INSPECTING
                          [] call.attached[k] = "marketplace" -> INSPECTED
                          [] OTHER -> ERROR
               /\ \A a \in AmiIds \ Range(call.messages) :
                     cluster_images'[a].status = cluster_images[a].status]_vars

\* C39: processing a message again leaves the stored instance events and
\* the stored runs as they were after it was processed the first time
RedeliveryIdempotent ==
    [][RedeliverMessage => (events' = events /\ runs' = runs)]_vars

\* processing a message again leaves the stored runs as they were
RedeliveryKeepsRuns == [][RedeliverMessage => SameRuns(runs', runs)]_vars

\* processing a message again stores one more instance event
RedeliveryAddsEvent ==
    [][RedeliverMessage => Len(events') = Len(events) + 1]_vars

\* C40: whenever the image is pending, preparing or inspecting, it is
\* inspected or error at some later time
InspectionTerminates ==
    (machine_image.status \in {PENDING, PREPARING, INSPECTING})
       ~> (machine_image.status \in Terminal)

\* the same for an image that an instance with a region is bound to
InspectionOfInstanceImageTerminates ==
    (machine_image.status \in {PENDING, PREPARING, INSPECTING}
        /\ HasRegionInstance)
       ~> (machine_image.status \in Terminal)
====
